---- MODULE Spec2Model ----
(***************************************************************************)
(* Verification model of avro-idl: the Avro IDL grammar (lexer.rs), the    *)
(* import flattening of AvroIdlLexer::parse_idl and the reference linker   *)
(* LinkParser (linker.rs) over the trees of ast.rs.                        *)
(*                                                                         *)
(* Option<T> is a sequence: <<>> is None, <<x>> is Some(x).  Scalars are   *)
(* tagged tuples (<<"i32", 3>>, <<"String", "abc">>).  A Result is a       *)
(* record with st = "Ok" or "Err"; a panic (unwrap/expect on a failure)    *)
(* is the third outcome st = "Panic".                                      *)
(***************************************************************************)
EXTENDS Integers, Sequences, FiniteSets, TLC

VARIABLES unit, protocol, linked, serialized, files, stack, parsed, field_src, field_res, run

link_vars == <<protocol, linked, serialized>>
lexer_vars == <<files, stack, parsed>>
field_vars == <<field_src, field_res>>

----------------------------------------------------------------------------
(* ast.rs: Option, HasDefault, RawField / Field                            *)

None == <<>>
Some(x) == <<x>>

HasDefault_None == [hd |-> "None"]
HasDefault_Default(opt) == [hd |-> "Default", v |-> opt]

PrimitiveTags == {"Int", "Long", "Float", "Double", "Boolean", "String"}

Protocol(nm, fields, namespace, doc) ==
    [tag |-> "Protocol", nm |-> nm, fields |-> fields, namespace |-> namespace, doc |-> doc]
Primitive(tag, nm, default, doc) ==
    [tag |-> tag, nm |-> nm, default |-> default, doc |-> doc]
Enum(nm, values, default, namespace, doc) ==
    [tag |-> "Enum", nm |-> nm, values |-> values, default |-> default,
     namespace |-> namespace, doc |-> doc]
Record(nm, fields, namespace, doc) ==
    [tag |-> "Record", nm |-> nm, fields |-> fields, namespace |-> namespace, doc |-> doc]
Union(nm, fields, default, doc) ==
    [tag |-> "Union", nm |-> nm, fields |-> fields, default |-> default, doc |-> doc]
Array(nm, inner, default, doc) ==
    [tag |-> "Array", nm |-> nm, inner |-> inner, default |-> default, doc |-> doc]
Null == [tag |-> "Null"]
Unresolved(nm, type, doc) == [tag |-> "Unresolved", nm |-> nm, type |-> type, doc |-> doc]
Import(path) == [tag |-> "Import", path |-> path]
RecordReference(nm, type, doc) ==
    [tag |-> "RecordReference", nm |-> nm, type |-> type, doc |-> doc]
EnumReference(nm, type, default, doc) ==
    [tag |-> "EnumReference", nm |-> nm, type |-> type, default |-> default, doc |-> doc]

(* error.rs and the outcomes of a call *)
Ok(v) == [st |-> "Ok", val |-> v]
Err(kind, msg) == [st |-> "Err", kind |-> kind, msg |-> msg]
Panic(cause) == [st |-> "Panic", cause |-> cause]
unwrap(r) == IF r.st = "Err" THEN Panic(r) ELSE r

NotRun == [st |-> "NotRun"]

(* RawField::name *)
name(field) == IF field.tag \in {"Null", "Import"} THEN None ELSE field.nm

(* RawField::remove_default *)
remove_default_kept(field) == field
remove_default(field) ==
    CASE field.tag \in PrimitiveTags ->
           Primitive(field.tag, field.nm, HasDefault_None, None)
      [] field.tag = "Enum" ->
           Enum(field.nm, field.values, HasDefault_None, field.namespace, None)
      [] OTHER -> field

(* RawField::find_field_by_name: the first top-level field of that name *)
RECURSIVE find_in(_, _, _)
find_in_kept(fields, i, field_name) ==
    IF i > Len(fields) THEN None
    ELSE IF name(fields[i]) = Some(field_name) THEN Some(fields[i])
    ELSE find_in(fields, i + 1, field_name)
find_in_last(fields, i, field_name) ==
    LET hits == {k \in i..Len(fields) : name(fields[k]) = Some(field_name)}
    IN  IF hits = {} THEN None
        ELSE Some(remove_default(fields[CHOOSE k \in hits : \A j \in hits : j <= k]))
find_in(fields, i, field_name) ==
    IF i > Len(fields) THEN None
    ELSE IF name(fields[i]) = Some(field_name) THEN Some(remove_default(fields[i]))
    ELSE find_in(fields, i + 1, field_name)

find_field_by_name_nested(self, field_name) ==
    IF self.tag # "Protocol" THEN None
    ELSE LET top == find_in(self.fields, 1, field_name)
             records == {self.fields[j] : j \in {k \in DOMAIN self.fields :
                                                   self.fields[k].tag = "Record"}}
             siblings == {f \in UNION {{d.fields[i] : i \in DOMAIN d.fields} : d \in records} :
                            name(f) = Some(field_name)}
         IN  IF top # None \/ siblings = {} THEN top
             ELSE Some(remove_default(CHOOSE f \in siblings : TRUE))
find_field_by_name(self, field_name) ==
    IF self.tag = "Protocol" THEN find_in(self.fields, 1, field_name) ELSE None

(* linker.rs 52-55: format!("Field of type '{}' cannot be found!", value) *)
undefined_reference_msg(value) == <<"Field of type '", value, "' cannot be found!">>

(* linker.rs 57-65: the match on the declaration the lookup found *)
link_reference_swapped(nm, value, docstring, ref_field) ==
    CASE ref_field.tag = "Record" ->
           Ok(EnumReference(nm, value, HasDefault_None, docstring))
      [] ref_field.tag = "Enum" -> Ok(RecordReference(nm, value, docstring))
      [] OTHER -> Err("InvalidASTDataType", <<"Only Record and Enum are valid references!">>)
link_reference(nm, value, docstring, ref_field) ==
    CASE ref_field.tag = "Record" -> Ok(RecordReference(nm, value, docstring))
      [] ref_field.tag = "Enum" ->
           Ok(EnumReference(nm, value, ref_field.default, docstring))
      [] OTHER -> Err("InvalidASTDataType", <<"Only Record and Enum are valid references!">>)

(* .map(|f| self.parse_recurse(protocol, f).unwrap()).collect(): the first *)
(* element that does not link ends the call                                *)
RECURSIVE parse_recurse(_, _)
RECURSIVE map_unwrap(_, _, _, _)
map_unwrap_reversed(proto, fields, i, acc) ==
    IF i > Len(fields) THEN Ok(acc)
    ELSE LET r == unwrap(parse_recurse(proto, fields[i]))
         IN  IF r.st = "Ok" THEN map_unwrap(proto, fields, i + 1, <<r.val>> \o acc)
             ELSE r
map_unwrap(proto, fields, i, acc) ==
    IF i > Len(fields) THEN Ok(acc)
    ELSE LET r == unwrap(parse_recurse(proto, fields[i]))
         IN  IF r.st = "Ok" THEN map_unwrap(proto, fields, i + 1, Append(acc, r.val))
             ELSE r

(* LinkParser::parse_recurse *)
parse_recurse_enum_reset(proto, field) ==
    CASE field.tag \in PrimitiveTags ->
           Ok(Primitive(field.tag, field.nm, field.default, field.doc))
      [] field.tag = "Enum" ->
           Ok(Enum(field.nm, field.values, HasDefault_None, field.namespace, field.doc))
      [] field.tag = "Record" ->
           LET l == map_unwrap(proto, field.fields, 1, <<>>)
           IN  IF l.st = "Ok" THEN Ok(Record(field.nm, l.val, field.namespace, field.doc))
               ELSE l
      [] field.tag = "Unresolved" ->
           LET hit == find_field_by_name(proto, field.type)
           IN  IF hit = None
               THEN Err("UndefinedReference", undefined_reference_msg(field.type))
               ELSE link_reference(field.nm, field.type, field.doc, hit[1])
      [] field.tag = "Union" ->
           LET l == map_unwrap(proto, field.fields, 1, <<>>)
           IN  IF l.st = "Ok" THEN Ok(Union(field.nm, l.val, field.default, field.doc))
               ELSE l
      [] field.tag = "Protocol" ->
           Err("InvalidASTDataType", <<"'Protocol' can only be declared once per file!">>)
      [] field.tag = "Array" ->
           LET e == unwrap(parse_recurse(proto, field.inner))
           IN  IF e.st = "Ok" THEN Ok(Array(field.nm, e.val, field.default, field.doc))
               ELSE e
      [] field.tag = "Import" ->
           Err("InvalidASTDataType",
               <<"'Import' should have been resolved previous to Linking!">>)
      [] OTHER -> Ok(Null)
parse_recurse(proto, field) ==
    CASE field.tag \in PrimitiveTags ->
           Ok(Primitive(field.tag, field.nm, field.default, field.doc))
      [] field.tag = "Enum" ->
           Ok(Enum(field.nm, field.values, field.default, field.namespace, field.doc))
      [] field.tag = "Record" ->
           LET l == map_unwrap(proto, field.fields, 1, <<>>)
           IN  IF l.st = "Ok" THEN Ok(Record(field.nm, l.val, field.namespace, field.doc))
               ELSE l
      [] field.tag = "Unresolved" ->
           LET hit == find_field_by_name(proto, field.type)
           IN  IF hit = None
               THEN Err("UndefinedReference", undefined_reference_msg(field.type))
               ELSE link_reference(field.nm, field.type, field.doc, hit[1])
      [] field.tag = "Union" ->
           LET l == map_unwrap(proto, field.fields, 1, <<>>)
           IN  IF l.st = "Ok" THEN Ok(Union(field.nm, l.val, field.default, field.doc))
               ELSE l
      [] field.tag = "Protocol" ->
           Err("InvalidASTDataType", <<"'Protocol' can only be declared once per file!">>)
      [] field.tag = "Array" ->
           LET e == unwrap(parse_recurse(proto, field.inner))
           IN  IF e.st = "Ok" THEN Ok(Array(field.nm, e.val, field.default, field.doc))
               ELSE e
      [] field.tag = "Import" ->
           Err("InvalidASTDataType",
               <<"'Import' should have been resolved previous to Linking!">>)
      [] OTHER -> Ok(Null)

(* LinkParser::parse *)
LinkParser_parse_any_root(proto) == parse_recurse(proto, proto)
LinkParser_parse(proto) ==
    IF proto.tag # "Protocol"
    THEN Err("InvalidASTDataType", <<"Expected a protocol">>)
    ELSE LET l == map_unwrap(proto, proto.fields, 1, <<>>)
         IN  IF l.st = "Ok" THEN Ok(Protocol(proto.nm, l.val, proto.namespace, proto.doc))
             ELSE l

----------------------------------------------------------------------------
(* lexer.rs: the grammar of primitive record fields.  A source text is the  *)
(* sequence of its characters; a parser takes the text and a position and   *)
(* yields POk(next position, output), PFail, or PPanic when a closure of    *)
(* the grammar unwraps a failed conversion.                                 *)

POk(pos, out) == [r |-> "ok", pos |-> pos, out |-> out]
PFail == [r |-> "fail"]
PPanic(cause) == [r |-> "panic", cause |-> cause]

Whitespace == {" ", "\n", "\t"}
Digits == {"0", "1", "2", "3", "4", "5", "6", "7", "8", "9"}
Alpha ==
    {"a", "b", "c", "d", "e", "f", "g", "h", "i", "j", "k", "l", "m", "n", "o", "p", "q",
     "r", "s", "t", "u", "v", "w", "x", "y", "z", "A", "B", "C", "D", "E", "F", "G", "H",
     "I", "J", "K", "L", "M", "N", "O", "P", "Q", "R", "S", "T", "U", "V", "W", "X", "Y",
     "Z"}
DigitVal ==
    ("0" :> 0) @@ ("1" :> 1) @@ ("2" :> 2) @@ ("3" :> 3) @@ ("4" :> 4) @@ ("5" :> 5)
    @@ ("6" :> 6) @@ ("7" :> 7) @@ ("8" :> 8) @@ ("9" :> 9)

(* the characters of the keywords of the grammar *)
Chars(k) ==
    CASE k = "int" -> <<"i", "n", "t">>
      [] k = "long" -> <<"l", "o", "n", "g">>
      [] k = "float" -> <<"f", "l", "o", "a", "t">>
      [] k = "double" -> <<"d", "o", "u", "b", "l", "e">>
      [] k = "boolean" -> <<"b", "o", "o", "l", "e", "a", "n">>
      [] k = "string" -> <<"s", "t", "r", "i", "n", "g">>
      [] k = "null" -> <<"n", "u", "l", "l">>
      [] k = "true" -> <<"t", "r", "u", "e">>
      [] k = "false" -> <<"f", "a", "l", "s", "e">>
      [] k = "array" -> <<"a", "r", "r", "a", "y">>
      [] k = "union" -> <<"u", "n", "i", "o", "n">>
      [] k = "enum" -> <<"e", "n", "u", "m">>
      [] k = "record" -> <<"r", "e", "c", "o", "r", "d">>
      [] k = "protocol" -> <<"p", "r", "o", "t", "o", "c", "o", "l">>
      [] k = "namespace" -> <<"n", "a", "m", "e", "s", "p", "a", "c", "e">>
      [] k = "import" -> <<"i", "m", "p", "o", "r", "t">>
      [] k = "idl" -> <<"i", "d", "l">>

(* a String built from its characters *)
RECURSIVE Str(_)
Str(cs) == IF cs = <<>> THEN "" ELSE Head(cs) \o Str(Tail(cs))

(* the next character of the stream, "EOF" past its end *)
At(s, i) == IF i \in 1..Len(s) THEN s[i] ELSE "EOF"

(* the end of the longest run of characters of a class starting at i *)
RECURSIVE span_end(_, _, _)
span_end(s, i, class) == IF At(s, i) \in class THEN span_end(s, i + 1, class) ELSE i

(* the whitespace that padded() skips *)
skip_ws(s, i) == span_end(s, i, Whitespace)

(* str::trim *)
RECURSIVE trim_end(_)
trim_end(cs) ==
    IF cs # <<>> /\ cs[Len(cs)] \in Whitespace THEN trim_end(SubSeq(cs, 1, Len(cs) - 1))
    ELSE cs
trim(cs) == LET b == span_end(cs, 1, Whitespace) IN trim_end(SubSeq(cs, b, Len(cs)))

(* just(c) *)
just(c, s, i) == IF At(s, i) = c THEN POk(i + 1, c) ELSE PFail

(* text::ident *)
ident(s, i) ==
    IF At(s, i) \in Alpha \cup {"_"}
    THEN LET e == span_end(s, i + 1, Alpha \cup Digits \cup {"_"})
         IN  POk(e, SubSeq(s, i, e - 1))
    ELSE PFail

(* text::keyword: an identifier that is exactly the keyword *)
keyword(k, s, i) ==
    LET id == ident(s, i)
    IN  IF id.r = "ok" /\ id.out = Chars(k) THEN POk(id.pos, <<>>) ELSE PFail

(* text::digits(10) *)
digits(s, i) ==
    LET e == span_end(s, i, Digits) IN IF e > i THEN POk(e, SubSeq(s, i, e - 1)) ELSE PFail

(* text::int(10): a single 0, or a digit other than 0 followed by digits *)
int10(s, i) ==
    IF At(s, i) = "0" THEN POk(i + 1, <<"0">>)
    ELSE IF At(s, i) \in Digits
         THEN LET e == span_end(s, i, Digits) IN POk(e, SubSeq(s, i, e - 1))
         ELSE PFail

(* lexer.rs 96-102: the docstring parser, padded *)
RECURSIVE doc_end(_, _)
doc_end(s, i) ==
    IF i > Len(s) THEN 0
    ELSE IF At(s, i) = "*" /\ At(s, i + 1) = "/" THEN i
    ELSE doc_end(s, i + 1)

docstring_parser(s, i) ==
    LET j == skip_ws(s, i) IN
    IF At(s, j) = "/" /\ At(s, j + 1) = "*" /\ At(s, j + 2) = "*"
    THEN LET e == doc_end(s, j + 3)
         IN  IF e = 0 THEN PFail ELSE POk(skip_ws(s, e + 2), SubSeq(s, j + 3, e - 1))
    ELSE PFail

(* docstring_parser.or_not(), with the closures' x.trim().to_string() *)
opt_docstring(s, i) ==
    LET d == docstring_parser(s, i)
    IN  IF d.r = "ok" THEN [pos |-> d.pos, doc |-> Some(Str(trim(d.out)))]
        ELSE [pos |-> i, doc |-> None]

(* lexer.rs 226-235: '-'? int frac, collected into a String *)
number(s, i) ==
    LET j == IF At(s, i) = "-" THEN i + 1 ELSE i
        n == int10(s, j)
    IN  IF n.r # "ok" \/ At(s, n.pos) # "." THEN PFail
        ELSE LET f == digits(s, n.pos + 1)
             IN  IF f.r = "ok" THEN POk(f.pos, SubSeq(s, i, f.pos - 1)) ELSE PFail

(* lexer.rs 328-330: a quoted string without its quotes *)
RECURSIVE none_of_end(_, _, _)
none_of_end(c, s, i) ==
    IF i > Len(s) \/ At(s, i) = c THEN i ELSE none_of_end(c, s, i + 1)

quoted(s, i) ==
    IF At(s, i) # "\"" THEN PFail
    ELSE LET e == none_of_end("\"", s, i + 1)
         IN  IF At(s, e) = "\"" THEN POk(e + 1, SubSeq(s, i + 1, e - 1)) ELSE PFail

(* the literal syntax of the default of each primitive keyword *)
literal_of(kw, s, i) ==
    CASE kw \in {"int", "long"} -> digits(s, i)
      [] kw \in {"float", "double"} -> number(s, i)
      [] kw = "boolean" ->
           IF keyword("true", s, i).r = "ok" THEN POk(keyword("true", s, i).pos, Chars("true"))
           ELSE IF keyword("false", s, i).r = "ok"
                THEN POk(keyword("false", s, i).pos, Chars("false"))
                ELSE PFail
      [] kw = "string" -> quoted(s, i)

(* the default_value_parser handed to nullable_primitive_parser:           *)
(* literal.map(Default(Some)).or(keyword("null").to(Default(None)))        *)
(*        .or_else(|_| Ok(HasDefault::None))                               *)
default_value_parser(kw, s, i) ==
    LET lit == literal_of(kw, s, i) IN
    IF lit.r = "ok" THEN POk(lit.pos, HasDefault_Default(Some(lit.out)))
    ELSE IF keyword("null", s, i).r = "ok"
         THEN POk(keyword("null", s, i).pos, HasDefault_Default(None))
         ELSE POk(i, HasDefault_None)

(* lexer.rs 104-108: '=' value ';', each padded *)
default_parser(kw, s, i) ==
    LET eq == just("=", s, skip_ws(s, i)) IN
    IF eq.r # "ok" THEN PFail
    ELSE LET v == default_value_parser(kw, s, skip_ws(s, eq.pos))
             semi == just(";", s, skip_ws(s, v.pos))
         IN  IF semi.r = "ok" THEN POk(skip_ws(s, semi.pos), v.out) ELSE PFail

(* lexer.rs 110 *)
no_default_parser(s, i) == just(";", s, i)

(* lexer.rs 112-114: keyword, then the field name, each padded *)
keyword_parser(kw, s, i) ==
    LET k == keyword(kw, s, skip_ws(s, i)) IN
    IF k.r # "ok" THEN PFail
    ELSE LET id == ident(s, skip_ws(s, k.pos))
         IN  IF id.r = "ok" THEN POk(skip_ws(s, id.pos), Str(id.out)) ELSE PFail

(* lexer.rs 117-120: keyword immediately followed by '?', then the name *)
keyword_nullable_parser(kw, s, i) ==
    LET k == keyword(kw, s, skip_ws(s, i)) IN
    IF k.r # "ok" \/ At(s, k.pos) # "?" THEN PFail
    ELSE LET id == ident(s, skip_ws(s, k.pos + 1))
         IN  IF id.r = "ok" THEN POk(skip_ws(s, id.pos), Str(id.out)) ELSE PFail

(* the value of a digit string that fits a machine word *)
RECURSIVE digits_value(_, _)
digits_value(cs, acc) ==
    IF cs = <<>> THEN acc ELSE digits_value(Tail(cs), acc * 10 + DigitVal[Head(cs)])

(* i32::MAX and i64::MAX, as numerals *)
I32Max == <<"2", "1", "4", "7", "4", "8", "3", "6", "4", "7">>
I64Max == <<"9", "2", "2", "3", "3", "7", "2", "0", "3", "6", "8", "5", "4", "7", "7", "5",
            "8", "0", "7">>

RECURSIVE strip_leading_zeros(_)
strip_leading_zeros(cs) ==
    IF Len(cs) > 1 /\ Head(cs) = "0" THEN strip_leading_zeros(Tail(cs)) ELSE cs

RECURSIVE lex_greater(_, _)
lex_greater(a, b) ==
    IF a = <<>> THEN FALSE
    ELSE IF Head(a) # Head(b) THEN DigitVal[Head(a)] > DigitVal[Head(b)]
    ELSE lex_greater(Tail(a), Tail(b))

exceeds(n, max) == Len(n) > Len(max) \/ (Len(n) = Len(max) /\ lex_greater(n, max))

(* str::parse::<i32> / <i64> of an unsigned digit string: the integer, as  *)
(* its numeral without leading zeros, or Err when it does not fit the width *)
parse_int(ty, max, cs) ==
    IF cs = <<>> \/ \E k \in DOMAIN cs : cs[k] \notin Digits
    THEN Err("ParseIntError", <<"invalid digit found in string">>)
    ELSE IF exceeds(strip_leading_zeros(cs), max)
         THEN Err("ParseIntError", <<"number too large to fit in target type">>)
         ELSE Ok(<<ty, strip_leading_zeros(cs)>>)

(* str::parse::<f32> / <f64> of '-'? int '.' digits: the decimal it denotes,  *)
(* as sign, digits and number of fraction digits, without trailing zeros      *)
RECURSIVE strip_zeros(_, _)
strip_zeros(num, scale) ==
    IF scale > 0 /\ num % 10 = 0 THEN strip_zeros(num \div 10, scale - 1)
    ELSE <<num, scale>>

parse_float(ty, cs) ==
    LET neg == cs # <<>> /\ cs[1] = "-"
        body == IF neg THEN Tail(cs) ELSE cs
        dot == none_of_end(".", body, 1)
        all == SubSeq(body, 1, dot - 1) \o SubSeq(body, dot + 1, Len(body))
    IN  IF dot = 1 \/ dot >= Len(body) \/ \E k \in DOMAIN all : all[k] \notin Digits
        THEN Err("ParseFloatError", <<"invalid float literal">>)
        ELSE LET d == strip_zeros(digits_value(all, 0), Len(body) - dot)
             IN  Ok(<<ty, neg /\ d[1] # 0, d[1], d[2]>>)

(* str::parse::<bool> *)
parse_bool(cs) ==
    IF cs = Chars("true") THEN Ok(<<"bool", TRUE>>)
    ELSE IF cs = Chars("false") THEN Ok(<<"bool", FALSE>>)
    ELSE Err("ParseBoolError", <<"provided string was not true or false">>)

(* the conversion each create_*_default_parser applies to the default text *)
parse_value(kw, cs) ==
    CASE kw = "int" -> parse_int("i32", I32Max, cs)
      [] kw = "long" -> parse_int("i64", I64Max, cs)
      [] kw = "float" -> parse_float("f32", cs)
      [] kw = "double" -> parse_float("f64", cs)
      [] kw = "boolean" -> parse_bool(cs)
      [] kw = "string" -> Ok(<<"String", Str(cs)>>)

TagOf(kw) ==
    CASE kw = "int" -> "Int" [] kw = "long" -> "Long" [] kw = "float" -> "Float"
      [] kw = "double" -> "Double" [] kw = "boolean" -> "Boolean" [] kw = "string" -> "String"

(* ast.rs Literal *)
Literal(variant, v) == [lit |-> variant, v |-> v]

(* HasDefault::map with a closure that unwraps the conversion *)
map_parsed(kw, value) ==
    IF value.hd = "Default" /\ value.v # None
    THEN LET c == unwrap(parse_value(kw, value.v[1]))
         IN  IF c.st = "Ok" THEN Ok(HasDefault_Default(Some(c.val))) ELSE c
    ELSE Ok(value)

(* the primitive_field_factory closures of create_*_default_parser *)
primitive_field_factory_no_default(kw, nm, value, docstring) ==
    Ok(Primitive(TagOf(kw), Some(nm), HasDefault_None, docstring))
primitive_field_factory(kw, nm, value, docstring) ==
    LET default == map_parsed(kw, value)
    IN  IF default.st = "Ok" THEN Ok(Primitive(TagOf(kw), Some(nm), default.val, docstring))
        ELSE default

(* the union_field_factory closures of create_*_default_parser *)
union_field_factory_inner_default(kw, nm, value, docstring) ==
    LET default == map_parsed(kw, value)
    IN  IF default.st = "Ok"
        THEN Ok(Union(Some(nm), <<Primitive(TagOf(kw), None, default.val, None), Null>>,
                      HasDefault_None, docstring))
        ELSE default
union_field_factory(kw, nm, value, docstring) ==
    LET default == map_parsed(kw, value)
    IN  IF default.st = "Ok"
        THEN Ok(Union(Some(nm), <<Primitive(TagOf(kw), None, HasDefault_None, None), Null>>,
                      IF default.val.hd = "Default" /\ default.val.v # None
                      THEN HasDefault_Default(Some(Literal(TagOf(kw), default.val.v[1])))
                      ELSE default.val,
                      docstring))
        ELSE default

(* .map(closure) on a parser: the closure runs when the parser matched *)
mapped(pos, made) == IF made.st = "Ok" THEN POk(pos, made.val) ELSE PPanic(made)

(* lexer.rs 122-169: the four alternatives *)
primitive_with_default(kw, s, i) ==
    LET d == opt_docstring(s, i)
        k == keyword_parser(kw, s, d.pos)
    IN  IF k.r # "ok" THEN PFail
        ELSE LET v == default_parser(kw, s, k.pos)
             IN  IF v.r # "ok" THEN PFail
                 ELSE mapped(v.pos, primitive_field_factory(kw, k.out, v.out, d.doc))

primitive_no_default(kw, s, i) ==
    LET d == opt_docstring(s, i)
        k == keyword_parser(kw, s, d.pos)
    IN  IF k.r # "ok" THEN PFail
        ELSE LET e == no_default_parser(s, k.pos)
             IN  IF e.r # "ok" THEN PFail
                 ELSE mapped(e.pos, primitive_field_factory(kw, k.out, HasDefault_None, d.doc))

primitive_nullable_default(kw, s, i) ==
    LET d == opt_docstring(s, i)
        k == keyword_nullable_parser(kw, s, d.pos)
    IN  IF k.r # "ok" THEN PFail
        ELSE LET v == default_parser(kw, s, k.pos)
             IN  IF v.r # "ok" THEN PFail
                 ELSE mapped(v.pos, union_field_factory(kw, k.out, v.out, d.doc))

primitive_nullable_no_default(kw, s, i) ==
    LET d == opt_docstring(s, i)
        k == keyword_nullable_parser(kw, s, d.pos)
    IN  IF k.r # "ok" THEN PFail
        ELSE LET e == no_default_parser(s, k.pos)
             IN  IF e.r # "ok" THEN PFail
                 ELSE mapped(e.pos, union_field_factory(kw, k.out, HasDefault_None, d.doc))

(* choice((..)): the first alternative that does not fail *)
or(a, b) == IF a.r = "fail" THEN b ELSE a

(* AvroIdlLexer::nullable_primitive_parser *)
nullable_primitive_parser(kw, s, i) ==
    or(primitive_nullable_default(kw, s, i),
       or(primitive_nullable_no_default(kw, s, i),
          or(primitive_no_default(kw, s, i), primitive_with_default(kw, s, i))))

PrimitiveKeywords == <<"int", "long", "float", "double", "boolean", "string">>

(* AvroIdlLexer::create_primitive_parser *)
RECURSIVE choice_of_primitives(_, _, _)
choice_of_primitives(n, s, i) ==
    IF n > Len(PrimitiveKeywords) THEN PFail
    ELSE or(nullable_primitive_parser(PrimitiveKeywords[n], s, i),
            choice_of_primitives(n + 1, s, i))

create_primitive_parser(s, i) == choice_of_primitives(1, s, i)

----------------------------------------------------------------------------
(* lexer.rs create_chumsky_parser: references, enums, arrays, unions and   *)
(* the choice of the fields of a record                                    *)

(* A chain a.then(b).then_ignore(c)... is run left to right: each step    *)
(* takes the result so far, runs its parser where that result ends and     *)
(* adds the output to the list of outputs (then) or drops it (then_ignore). *)
(* A step after a failure or a panic hands that on.                        *)
start(i) == POk(i, <<>>)
keep(p, q) == IF q.r = "ok" THEN POk(q.pos, Append(p.out, q.out)) ELSE q
skip(p, q) == IF q.r = "ok" THEN POk(q.pos, p.out) ELSE q

(* the whitespace of padded() *)
then_ws(s, p) == IF p.r # "ok" THEN p ELSE POk(skip_ws(s, p.pos), p.out)

(* then_ignore(just(c)) and then_ignore(just(c).padded()) *)
then_just(c, s, p) == IF p.r # "ok" THEN p ELSE skip(p, just(c, s, p.pos))
then_just_padded(c, s, p) == then_ws(s, then_just(c, s, then_ws(s, p)))

(* then_ignore(text::keyword(k)) *)
then_keyword(k, s, p) == IF p.r # "ok" THEN p ELSE skip(p, keyword(k, s, p.pos))

(* text::ident() and a quoted text, as Strings *)
ident_string(s, i) ==
    LET id == ident(s, i) IN IF id.r = "ok" THEN POk(id.pos, Str(id.out)) ELSE PFail
quoted_string(s, i) ==
    LET q == quoted(s, i) IN IF q.r = "ok" THEN POk(q.pos, Str(q.out)) ELSE PFail

(* then(text::ident()), then(text::ident().padded()), then(a quoted text) *)
then_ident(s, p) == IF p.r # "ok" THEN p ELSE keep(p, ident_string(s, p.pos))
then_ident_padded(s, p) == then_ws(s, then_ident(s, then_ws(s, p)))
then_quoted(s, p) == IF p.r # "ok" THEN p ELSE keep(p, quoted_string(s, p.pos))

(* docstring_parser.or_not() at the head of a chain *)
then_docstring(s, p) ==
    IF p.r # "ok" THEN p
    ELSE POk(opt_docstring(s, p.pos).pos, Append(p.out, opt_docstring(s, p.pos).doc))

(* .map(closure) at the end of a chain *)
map_to(p, out) == IF p.r # "ok" THEN p ELSE POk(p.pos, out)

(* lexer.rs 422-435: docstring? ident, padded; ident padded; ';' *)
ref_parser_chain(s, i) ==
    then_just(";", s,
      then_ident_padded(s,
        then_ws(s, then_ident(s, then_docstring(s, then_ws(s, start(i)))))))
ref_parser_map(p) == map_to(p, Unresolved(Some(p.out[3]), p.out[2], p.out[1]))
ref_parser(s, i) == ref_parser_map(ref_parser_chain(s, i))

(* lexer.rs 445-452: the closure of ref_parser_optional *)
optional_reference_inner_named(nm, type_, docstring) ==
    Union(None, <<Unresolved(Some(nm), type_, docstring), Null>>, HasDefault_None, None)
optional_reference(nm, type_, docstring) ==
    Union(Some(nm), <<Unresolved(None, type_, None), Null>>, HasDefault_None, docstring)

(* lexer.rs 438-453: docstring? ident '?', padded; ident padded; ';' *)
ref_parser_optional_chain(s, i) ==
    then_just(";", s,
      then_ident_padded(s,
        then_ws(s,
          then_just("?", s, then_ident(s, then_docstring(s, then_ws(s, start(i))))))))
ref_parser_optional_map(p) == map_to(p, optional_reference(p.out[3], p.out[2], p.out[1]))
ref_parser_optional(s, i) == ref_parser_optional_map(ref_parser_optional_chain(s, i))

(* lexer.rs 463: (ident padded ',')*, each round taken whole or not at all *)
RECURSIVE enum_values_repeated(_, _)
enum_values_next(s, p, round) == IF round.r = "ok" THEN enum_values_repeated(s, round) ELSE p
enum_values_repeated(s, p) ==
    IF p.r # "ok" THEN p ELSE enum_values_next(s, p, then_just(",", s, then_ident_padded(s, p)))

(* lexer.rs 456-464: docstring? 'enum', padded; name; '{' padded; the      *)
(* symbols followed by ','; the last symbol.  The outputs are the          *)
(* docstring, the name and the symbols                                     *)
enum_parser_plain(s, i) ==
    then_ident_padded(s,
      enum_values_repeated(s,
        then_just_padded("{", s,
          then_ident(s,
            then_ws(s, then_keyword("enum", s, then_docstring(s, then_ws(s, start(i)))))))))

(* lexer.rs 474, 486: values.push(last_value) *)
push_last_first(values, last_value) == <<last_value>> \o values
push_last(values, last_value) == Append(values, last_value)

(* lexer.rs 466-483: the plain enum, then '}' '=' default ';', all padded *)
enum_with_default_map(p) ==
    map_to(p, Enum(Some(p.out[2]),
                   push_last(SubSeq(p.out, 3, Len(p.out) - 2), p.out[Len(p.out) - 1]),
                   HasDefault_Default(Some(p.out[Len(p.out)])), None, p.out[1]))
enum_with_default(s, i) ==
    enum_with_default_map(
      then_just_padded(";", s,
        then_ident_padded(s,
          then_just_padded("=", s, then_just_padded("}", s, enum_parser_plain(s, i))))))

(* lexer.rs 484-495: the plain enum, then '}' padded *)
enum_without_default_map(p) ==
    map_to(p, Enum(Some(p.out[2]),
                   push_last(SubSeq(p.out, 3, Len(p.out) - 1), p.out[Len(p.out)]),
                   HasDefault_None, None, p.out[1]))
enum_without_default(s, i) ==
    enum_without_default_map(then_just_padded("}", s, enum_parser_plain(s, i)))

(* lexer.rs 466-495: the first of the two forms that matches *)
enum_parser(s, i) == or(enum_with_default(s, i), enum_without_default(s, i))

(* lexer.rs 498-521: a keyword (each alternative padded) gives the unnamed *)
(* primitive, null gives Null, any other identifier an Unresolved          *)
unnamed_type_of(id) ==
    IF \E n \in DOMAIN PrimitiveKeywords : id = PrimitiveKeywords[n]
    THEN Primitive(TagOf(id), None, HasDefault_None, None)
    ELSE IF id = "null" THEN Null
    ELSE Unresolved(None, id, None)
unnamed_type_map(p) == map_to(p, unnamed_type_of(p.out[1]))
unnamed_type_parser(s, i) == unnamed_type_map(then_ident_padded(s, start(i)))
then_unnamed_type(s, p) == IF p.r # "ok" THEN p ELSE keep(p, unnamed_type_parser(s, p.pos))

(* lexer.rs 524: separated_by(just(',').padded()), no trailing separator *)
RECURSIVE more_unnamed_types(_, _)
after_separator(s, p, sep) ==
    IF sep.r # "ok" THEN p ELSE more_unnamed_types(s, then_unnamed_type(s, sep))
more_unnamed_types(s, p) ==
    IF p.r # "ok" THEN p ELSE after_separator(s, p, then_just_padded(",", s, p))
after_first_type(s, p, first) == IF first.r # "ok" THEN p ELSE more_unnamed_types(s, first)
then_unnamed_types(s, p) ==
    IF p.r # "ok" THEN p ELSE after_first_type(s, p, then_unnamed_type(s, p))
mult_unnamed_type_parser(s, i) == then_unnamed_types(s, start(i))

(* lexer.rs 527-547: docstring? 'array' '<' type '>' ident padded ';' *)
array_parser_chain(s, i) ==
    then_just(";", s,
      then_ident_padded(s,
        then_just(">", s,
          then_unnamed_type(s,
            then_just("<", s, then_keyword("array", s, then_docstring(s, start(i))))))))
array_parser_map(p) == map_to(p, Array(Some(p.out[3]), p.out[2], HasDefault_None, p.out[1]))
array_parser(s, i) == array_parser_map(array_parser_chain(s, i))

(* the value a literal text converts to, or the panic of the unwrap *)
literal_from(variant, conv) ==
    IF conv.st = "Ok" THEN Ok(Literal(variant, conv.val)) ELSE unwrap(conv)

(* lexer.rs 550-552: the keywords false, true and null *)
literal_keyword(s, i) ==
    LET id == ident_string(s, i) IN
    IF id.r # "ok" THEN PFail
    ELSE IF id.out = "false" THEN POk(id.pos, Literal("Boolean", <<"bool", FALSE>>))
    ELSE IF id.out = "true" THEN POk(id.pos, Literal("Boolean", <<"bool", TRUE>>))
    ELSE IF id.out = "null" THEN POk(id.pos, Literal("Null", <<>>))
    ELSE PFail

(* lexer.rs 553-556: a double and an int, each unwrapped by its closure *)
literal_double(s, i) ==
    LET value == number(s, i) IN
    IF value.r = "ok"
    THEN mapped(value.pos, literal_from("Double", parse_float("f64", value.out)))
    ELSE PFail
literal_int(s, i) ==
    LET value == digits(s, i) IN
    IF value.r = "ok"
    THEN mapped(value.pos, literal_from("Int", parse_int("i32", I32Max, value.out)))
    ELSE PFail

(* lexer.rs 557-560: '"' ident '"' *)
literal_string_map(p) == map_to(p, Literal("String", <<"String", p.out[1]>>))
literal_string(s, i) ==
    literal_string_map(then_just("\"", s, then_ident(s, then_just("\"", s, start(i)))))

(* lexer.rs 550-562: the first literal that matches; the choice is padded *)
literal_choice(s, i) ==
    or(literal_keyword(s, i), or(literal_double(s, i), or(literal_int(s, i), literal_string(s, i))))
union_literal_parser(s, i) == then_ws(s, literal_choice(s, skip_ws(s, i)))
then_literal(s, p) == IF p.r # "ok" THEN p ELSE keep(p, union_literal_parser(s, p.pos))

(* lexer.rs 593-597: if let Literal::Null = default_value *)
union_default_literal_null(default_value) == HasDefault_Default(Some(default_value))
union_default(default_value) ==
    IF default_value.lit = "Null" THEN HasDefault_Default(None)
    ELSE HasDefault_Default(Some(default_value))

(* lexer.rs 565-572: docstring? 'union' padded '{' padded types '}' padded *)
(* ident padded.  The outputs are the docstring, the types and the name    *)
union_parser_plain(s, i) ==
    then_ident_padded(s,
      then_just_padded("}", s,
        then_unnamed_types(s,
          then_just_padded("{", s,
            then_ws(s, then_keyword("union", s, then_ws(s, then_docstring(s, start(i)))))))))

(* lexer.rs 574-586: the plain union, then ';' padded *)
union_without_default_map(p) ==
    map_to(p, Union(Some(p.out[Len(p.out)]), SubSeq(p.out, 2, Len(p.out) - 1),
                    HasDefault_None, p.out[1]))
union_without_default(s, i) ==
    union_without_default_map(then_just_padded(";", s, union_parser_plain(s, i)))

(* lexer.rs 587-600: the plain union, then '=' literal ';', all padded *)
union_with_default_map(p) ==
    map_to(p, Union(Some(p.out[Len(p.out) - 1]), SubSeq(p.out, 2, Len(p.out) - 2),
                    union_default(p.out[Len(p.out)]), p.out[1]))
union_with_default(s, i) ==
    union_with_default_map(
      then_just_padded(";", s,
        then_literal(s, then_just_padded("=", s, union_parser_plain(s, i)))))

(* lexer.rs 574-600: the first of the two forms that matches *)
union_parser(s, i) == or(union_without_default(s, i), union_with_default(s, i))

(* lexer.rs 611-616: the choice of the fields of a record *)
record_field_parser_references_first(s, i) ==
    or(ref_parser(s, i),
       or(ref_parser_optional(s, i),
          or(create_primitive_parser(s, i), or(array_parser(s, i), union_parser(s, i)))))
record_field_parser(s, i) ==
    or(create_primitive_parser(s, i),
       or(array_parser(s, i),
          or(ref_parser(s, i), or(ref_parser_optional(s, i), union_parser(s, i)))))

(* lexer.rs 617: .repeated() on the choice of record fields: the fields up *)
(* to the first position where no alternative matches                      *)
RECURSIVE record_fields(_, _)
record_fields_next(s, p, field) ==
    IF field.r = "panic" THEN field
    ELSE IF field.r = "fail" THEN p
    ELSE record_fields(s, keep(p, field))
record_fields(s, p) ==
    IF p.r # "ok" THEN p ELSE record_fields_next(s, p, record_field_parser(s, p.pos))

(* lexer.rs 603-626: docstring? 'record', padded; name; '{' padded; the    *)
(* fields; '}' padded                                                      *)
record_parser_chain(s, i) ==
    then_just_padded("}", s,
      record_fields(s,
        then_just_padded("{", s,
          then_ident(s,
            then_ws(s, then_keyword("record", s, then_docstring(s, then_ws(s, start(i)))))))))
record_parser_map(p) ==
    map_to(p, Record(Some(p.out[2]), SubSeq(p.out, 3, Len(p.out)), None, p.out[1]))
record_parser(s, i) == record_parser_map(record_parser_chain(s, i))

(* lexer.rs 399-406: '@' 'namespace' '(' '"' text '"' ')' *)
namespace_parser(s, i) ==
    then_just(")", s,
      then_quoted(s, then_just("(", s, then_keyword("namespace", s, then_just("@", s, start(i))))))

(* lexer.rs 630: namespace.or_not() *)
then_namespace(s, p) ==
    LET namespace == namespace_parser(s, p.pos)
    IN  IF namespace.r = "ok" THEN POk(namespace.pos, Append(p.out, Some(namespace.out[1])))
        ELSE POk(p.pos, Append(p.out, None))

(* lexer.rs 392-396: 'protocol' padded, name, '{' padded *)
then_protocol_start(s, p) ==
    then_just_padded("{", s, then_ident(s, then_ws(s, then_keyword("protocol", s, then_ws(s, p)))))

(* lexer.rs 411-419: 'import' padded, 'idl' padded, '"' path '"', ';' padded *)
import_parser_map(p) == map_to(p, Import(p.out[1]))
import_parser(s, i) ==
    import_parser_map(
      then_just_padded(";", s,
        then_quoted(s,
          then_ws(s,
            then_keyword("idl", s,
              then_ws(s, then_keyword("import", s, then_ws(s, start(i)))))))))

(* lexer.rs 632: choice((import, record_parser, enum_parser)) *)
declaration_parser(s, i) ==
    or(import_parser(s, i), or(record_parser(s, i), enum_parser(s, i)))

(* lexer.rs 632: .repeated() *)
RECURSIVE declarations(_, _)
declarations_next(s, p, decl) ==
    IF decl.r = "panic" THEN decl
    ELSE IF decl.r = "fail" THEN p
    ELSE declarations(s, keep(p, decl))
declarations(s, p) ==
    IF p.r # "ok" THEN p ELSE declarations_next(s, p, declaration_parser(s, p.pos))

(* lexer.rs 634: end() *)
end_anywhere(s, i) == TRUE
end(s, i) == At(s, i) = "EOF"
then_end(s, p) == IF p.r # "ok" THEN p ELSE IF end(s, p.pos) THEN p ELSE PFail

(* lexer.rs 629-638: namespace? protocol_start declarations '}' padded,    *)
(* then the end of the input.  The outputs are the namespace, the name and *)
(* the declarations                                                        *)
create_chumsky_parser_map(p) ==
    map_to(p, Protocol(Some(p.out[2]), SubSeq(p.out, 3, Len(p.out)), p.out[1], None))
create_chumsky_parser(s) ==
    create_chumsky_parser_map(
      then_end(s,
        then_just_padded("}", s,
          declarations(s, then_protocol_start(s, then_namespace(s, start(1)))))))

----------------------------------------------------------------------------
(* Positions in a tree: a path is the sequence of child indices from the   *)
(* root (fields of a Protocol/Record/Union, the element of an Array)       *)

Children(n) ==
    CASE n.tag \in {"Protocol", "Record", "Union"} -> n.fields
      [] n.tag = "Array" -> <<n.inner>>
      [] OTHER -> <<>>

RECURSIVE PathsOf(_)
PathsOf(n) ==
    {<<>>} \cup UNION {{<<i>> \o p : p \in PathsOf(Children(n)[i])} :
                        i \in 1..Len(Children(n))}

RECURSIVE NodeAt(_, _)
NodeAt(n, p) == IF p = <<>> THEN n ELSE NodeAt(Children(n)[Head(p)], Tail(p))

(* the top-level declarations of that name, in declaration order *)
DeclsNamed(proto, T) == SelectSeq(proto.fields, LAMBDA d : name(d) = Some(T))

----------------------------------------------------------------------------
(* Inputs of the linker: protocols of at most MaxDecls declarations, one   *)
(* of them the record "B" with at most MaxFields fields that use the       *)
(* other declarations                                                      *)

MaxDecls == 3
MaxFields == 2

SeqsUpTo(S, n) == UNION {[1..k -> S] : k \in 0..n}

EnumM(default) == Enum(Some("M"), <<"X", "Y">>, default, None, None)
RecordA ==
    Record(Some("A"), <<Primitive("String", Some("s"), HasDefault_None, None)>>, None, None)

BaseDecls ==
    {EnumM(HasDefault_Default(Some("X"))), EnumM(HasDefault_None), RecordA,
     Import("x.avdl")}

PlainUse(T) == Unresolved(Some("f"), T, Some("d"))
UnionUse(T) == Union(Some("u"), <<Unresolved(None, T, None), Null>>, HasDefault_None, None)
ArrayUse(T) == Array(Some("xs"), Unresolved(None, T, None), HasDefault_None, None)

(* fields that need no lookup: a record declared inside the record, and a *)
(* union over an array                                                     *)
NestedRecord ==
    Record(Some("N"),
           <<Primitive("Boolean", Some("b"), HasDefault_Default(Some(<<"bool", TRUE>>)), None)>>,
           None, None)
ResolvedUnion ==
    Union(Some("v"),
          <<Array(None, Primitive("Double", None, HasDefault_None, None), HasDefault_None, None),
            Null>>,
          HasDefault_Default(None), Some("d"))

FieldCands ==
    {Primitive("Int", Some("a"), HasDefault_Default(Some(<<"i32", <<"1">>>>)), None),
     Protocol(Some("Q"), <<>>, None, None), Import("y.avdl"), NestedRecord, ResolvedUnion}
    \cup {PlainUse(T) : T \in {"A", "M", "Z", "B", "N"}}
    \cup {UnionUse(T) : T \in {"M", "Z"}}
    \cup {ArrayUse(T) : T \in {"A", "Z"}}

RecordB(fields) == Record(Some("B"), fields, Some("ns"), None)

(* the record "B" stands before or after the other declarations *)
LinkInput(base, fields, first) ==
    Protocol(Some("P"),
             IF first THEN <<RecordB(fields)>> \o base ELSE base \o <<RecordB(fields)>>,
             Some("ns"), None)

(* declarations that share a name: a record and an enum called T, and the *)
(* fields that use the name                                                *)
RecordNamed(T) ==
    Record(Some(T), <<Primitive("String", Some("s"), HasDefault_None, None)>>, None, None)
EnumNamed(T) == Enum(Some(T), <<"X", "Y">>, HasDefault_Default(Some("X")), None, None)
SameNameDecls(T) == [1..(MaxDecls - 1) -> {RecordNamed(T), EnumNamed(T)}]
UsesOf(T) == {PlainUse(T), UnionUse(T), ArrayUse(T)}

(* trees whose root is not a Protocol *)
NonProtocolRoots == BaseDecls \cup (FieldCands \ {Protocol(Some("Q"), <<>>, None, None)}) \cup {Null}

----------------------------------------------------------------------------
(* lexer.rs: AvroIdlLexer::parse / parse_idl, the import flattening.       *)
(* A path is the sequence of its components.  The text of a file is given  *)
(* by what the grammar makes of it: the Protocol that create_chumsky_parser *)
(* yields (records and enums without namespace, no docstring on the         *)
(* protocol), or nothing when the grammar cannot match it.                  *)

Idl(tree) == [kind |-> "idl", tree |-> tree]
Malformed == [kind |-> "malformed"]

(* std::fs::read_to_string *)
read_to_string(path) ==
    IF path \in DOMAIN files THEN Ok(files[path]) ELSE Err("io", <<"No such file">>)

(* Path::parent and PathBuf::push *)
parent_of_nothing(path) == None
parent(path) == IF path = <<>> THEN None ELSE Some(SubSeq(path, 1, Len(path) - 1))
push(path, component) == Append(path, component)

(* lexer.parse(src) of the chumsky parser *)
chumsky_parse(src) ==
    IF src.kind = "idl" THEN Ok(src.tree) ELSE Err("Simple", <<"found unexpected token">>)

(* one activation of parse_idl: the file, the protocol header, the         *)
(* declarations still to visit and the declarations collected so far       *)
Frame(path, tree) ==
    [path |-> path, nm |-> tree.nm, namespace |-> tree.namespace, docstring |-> tree.doc,
     values |-> tree.fields, res |-> <<>>]

(* parse_idl 28-43: run the grammar and take the protocol apart *)
parse_idl_enter(src, path) ==
    LET parse_res == chumsky_parse(src) IN
    IF parse_res.st = "Err" THEN unwrap(parse_res)
    ELSE IF parse_res.val.tag # "Protocol"
         THEN Err("InvalidASTDataType", <<"Didn't extract protocol">>)
         ELSE Ok(Frame(path, parse_res.val))

(* parse_idl 46-47: the arm of the match that takes an Import *)
is_import_never(val) == FALSE
is_import_unless_root(val) == val.tag = "Import" /\ val.path # "r.avdl"
is_import(val) == val.tag = "Import"

(* parse_idl 66-78: attach the namespace of the protocol being assembled *)
attach_namespace_dropped(val, namespace) == val
attach_namespace(val, namespace) ==
    CASE val.tag = "Record" -> Record(val.nm, val.fields, namespace, val.doc)
      [] val.tag = "Enum" -> Enum(val.nm, val.values, val.default, namespace, val.doc)
      [] OTHER -> val

(* parse_idl 62-64: for v in im_values { res.push(v) } *)
splice_front(res, im_values) == im_values \o res
splice(res, im_values) == res \o im_values

----------------------------------------------------------------------------
(* The files: the root imports "a" and "b", "a" imports "b"; "b" is a leaf, *)
(* is malformed, or imports a missing file or the root (a cycle)            *)

MaxFileDecls == 2
MaxDepth == 4

Dir == <<"d">>
RootPath == push(Dir, "r.avdl")
PathA == push(Dir, "a.avdl")
PathB == push(Dir, "b.avdl")

GrammarRecord(nm) ==
    Record(Some(nm), <<Primitive("Int", Some("i"), HasDefault_None, None)>>, None, None)
GrammarEnum(nm) == Enum(Some(nm), <<"X", "Y">>, HasDefault_None, None, None)

RootTexts ==
    {Idl(Protocol(Some("Root"), ds, Some("ns.root"), None)) :
       ds \in SeqsUpTo({GrammarRecord("R"), Import("a.avdl"), Import("b.avdl")}, MaxFileDecls)}
    \cup {Malformed}
TextsA ==
    {Idl(Protocol(Some("ProtA"), ds, Some("ns.import"), None)) :
       ds \in SeqsUpTo({GrammarRecord("A"), GrammarEnum("M"), Import("b.avdl")}, MaxFileDecls)}
TextsB ==
    {Idl(Protocol(Some("ProtB"), ds, None, None)) :
       ds \in SeqsUpTo({GrammarRecord("C"), GrammarEnum("N")}, MaxFileDecls)
              \cup {<<Import("r.avdl")>>, <<Import("x.avdl")>>}}
    \cup {Malformed}

FileSystem(r, a, b) == (RootPath :> r) @@ (PathA :> a) @@ (PathB :> b)

----------------------------------------------------------------------------
(* The texts of primitive record fields: an optional docstring, a keyword, *)
(* an optional '?', a name and either ';' or '=' default ';'.  A default   *)
(* is written from its value, so that parsing has to read it back.         *)

MaxIntLit == 12

DigitChar == <<"0", "1", "2", "3", "4", "5", "6", "7", "8", "9">>

RECURSIVE Decimal(_)
Decimal(n) ==
    IF n < 10 THEN <<DigitChar[n + 1]>>
    ELSE Decimal(n \div 10) \o <<DigitChar[(n % 10) + 1]>>

RECURSIVE Pow10(_)
Pow10(k) == IF k = 0 THEN 1 ELSE 10 * Pow10(k - 1)

RECURSIVE FracText(_, _)
FracText(n, k) ==
    IF k = 0 THEN <<>> ELSE FracText(n \div 10, k - 1) \o <<DigitChar[(n % 10) + 1]>>

(* sign, digits and number of fraction digits of the decimals written *)
Decimals == {<<FALSE, 0, 0>>, <<FALSE, 3, 0>>, <<TRUE, 3, 0>>, <<FALSE, 15, 1>>,
             <<TRUE, 15, 1>>, <<FALSE, 21, 2>>, <<TRUE, 21, 2>>}

DecimalText(d) ==
    (IF d[1] THEN <<"-">> ELSE <<>>) \o Decimal(d[2] \div Pow10(d[3])) \o <<".">>
    \o (IF d[3] = 0 THEN <<"0">> ELSE FracText(d[2] % Pow10(d[3]), d[3]))

Written(val, text) == [val |-> val, text |-> text]

ValuesOf(kw) ==
    CASE kw = "int" -> {Written(<<"i32", Decimal(n)>>, z \o Decimal(n)) :
                          n \in 0..MaxIntLit, z \in {<<>>, <<"0">>}}
      [] kw = "long" -> {Written(<<"i64", Decimal(n)>>, z \o Decimal(n)) :
                           n \in 0..MaxIntLit, z \in {<<>>, <<"0">>}}
      [] kw = "float" -> {Written(<<"f32", d[1], d[2], d[3]>>, DecimalText(d)) : d \in Decimals}
      [] kw = "double" -> {Written(<<"f64", d[1], d[2], d[3]>>, DecimalText(d)) : d \in Decimals}
      [] kw = "boolean" -> {Written(<<"bool", TRUE>>, Chars("true")),
                            Written(<<"bool", FALSE>>, Chars("false"))}
      [] kw = "string" -> {Written(<<"String", "hi">>, <<"\"", "h", "i", "\"">>),
                           Written(<<"String", "a ?/">>, <<"\"", "a", " ", "?", "/", "\"">>)}

Keywords == {PrimitiveKeywords[n] : n \in DOMAIN PrimitiveKeywords}

DocTexts ==
    {[text |-> <<>>, doc |-> None],
     [text |-> <<"/", "*", "*", " ", "d", "1", " ", "*", "/", "\n">>, doc |-> Some("d1")]}

NameTexts == {[text |-> <<"a">>, str |-> "a"], [text |-> <<"i", "d", "_", "2">>, str |-> "id_2"]}

NoDefaultTail == <<";">>
DefaultTail(spaced, text) ==
    IF spaced THEN <<" ", "=", " ">> \o text \o <<";">> ELSE <<"=">> \o text \o <<";">>

Tails ==
    {NoDefaultTail}
    \cup {DefaultTail(sp, t) : sp \in BOOLEAN,
                               t \in {Chars("null"), <<>>}
                                     \cup {w.text : w \in UNION {ValuesOf(kw) : kw \in Keywords}}}

FieldText(d, kw, nullable, nm, tail) ==
    d.text \o Chars(kw) \o (IF nullable THEN <<"?">> ELSE <<>>) \o <<" ">> \o nm.text \o tail

----------------------------------------------------------------------------
(* The texts of array and union fields and of enum declarations *)

MaxMembers == 2
MaxSymbols == 2

(* the unnamed types: the keywords, null and a type name *)
UnnamedTexts ==
    {[text |-> Chars(kw), val |-> Primitive(TagOf(kw), None, HasDefault_None, None)] :
       kw \in Keywords}
    \cup {[text |-> Chars("null"), val |-> Null],
          [text |-> <<"A">>, val |-> Unresolved(None, "A", None)]}

UnionMembers == {m \in UnnamedTexts : m.text \in {Chars("double"), Chars("null"), <<"A">>}}

(* the texts of a list joined by a separator *)
RECURSIVE Joined(_, _)
Joined(texts, sep) ==
    IF texts = <<>> THEN <<>>
    ELSE IF Len(texts) = 1 THEN texts[1]
    ELSE texts[1] \o sep \o Joined(Tail(texts), sep)

ArrayText(d, e, spaced, nm) ==
    d.text \o Chars("array") \o <<"<">>
    \o (IF spaced THEN <<" ">> \o e.text \o <<" ">> ELSE e.text)
    \o <<">", " ">> \o nm.text \o <<";">>

(* the literals of a union default, each with the default it denotes *)
UnionLiterals ==
    {Written(HasDefault_Default(None), Chars("null")),
     Written(HasDefault_Default(Some(Literal("String", <<"String", "hi">>))),
             <<"\"", "h", "i", "\"">>),
     Written(HasDefault_Default(Some(Literal("Int", <<"i32", <<"0">>>>))), <<"0">>),
     Written(HasDefault_Default(Some(Literal("Int", <<"i32", <<"1", "2">>>>))),
             <<"0", "1", "2">>)}
    \cup {Written(HasDefault_Default(Some(Literal("Boolean", w.val))), w.text) :
            w \in ValuesOf("boolean")}
    \cup {Written(HasDefault_Default(Some(Literal("Double", w.val))), w.text) :
            w \in ValuesOf("double")}

UnionTails ==
    {Written(HasDefault_None, NoDefaultTail)}
    \cup {Written(w.val, DefaultTail(FALSE, w.text)) : w \in UnionLiterals}
    \cup {Written(w.val, DefaultTail(TRUE, w.text) \o <<"\n">>) :
            w \in {l \in UnionLiterals : l.text \in {Chars("null"), <<"-", "0", ".", "2", "1">>}}}

UnionText(d, members, nm, tail) ==
    d.text \o Chars("union") \o <<"{">>
    \o Joined([k \in DOMAIN members |-> members[k].text], <<",", " ">>)
    \o <<"}", " ">> \o nm.text \o tail.text

SymbolTexts == {"X", "Y", "Z"}

EnumTails ==
    {Written(HasDefault_None, <<>>)}
    \cup {Written(HasDefault_Default(Some(D)), <<" ", "=", " ", D, ";">>) : D \in {"X", "Q"}}
    \cup {Written(HasDefault_Default(Some("Y")), <<"=", "Y", ";", "\n">>)}

(* integer defaults one above the largest i32 and the largest i64 *)
AboveI32 == <<"2", "1", "4", "7", "4", "8", "3", "6", "4", "8">>
AboveI64 == <<"9", "2", "2", "3", "3", "7", "2", "0", "3", "6", "8", "5", "4", "7", "7", "5",
              "8", "0", "8">>
TooWideFor(kw) == IF kw = "int" THEN {AboveI32, AboveI64} ELSE {AboveI64}

EnumText(d, symbols, spaced, tail) ==
    d.text \o Chars("enum") \o <<" ", "N", " ", "{">>
    \o Joined([k \in DOMAIN symbols |-> <<symbols[k]>>],
              IF spaced THEN <<" ", ",", "\n">> ELSE <<",">>)
    \o <<"}">> \o tail.text

(* the texts of reference fields: a type name that is no primitive keyword, *)
(* an optional '?', the field name and ';'                                 *)
TypeTexts ==
    {[text |-> <<"A">>, str |-> "A"],
     [text |-> <<"i", "n", "t", "e", "g", "e", "r">>, str |-> "integer"],
     [text |-> Chars("array"), str |-> "array"]}

RefText(d, T, optional, spaced, nm) ==
    d.text \o T.text \o (IF optional THEN <<"?">> ELSE <<>>)
    \o (IF spaced THEN <<"\n", " ">> \o nm.text \o <<" ">> ELSE <<" ">> \o nm.text)
    \o <<";">>

----------------------------------------------------------------------------
(* The texts of whole files: an optional namespace annotation, the protocol *)
(* header, declarations (a record of at most MaxRecordFields fields, an     *)
(* import, an enum), the closing brace and what follows it                  *)

MaxRecordFields == 2

NoDoc == [text |-> <<>>, doc |-> None]
WithDoc == [text |-> <<"/", "*", "*", " ", "d", "1", " ", "*", "/", "\n">>, doc |-> Some("d1")]
NameA == [text |-> <<"a">>, str |-> "a"]
TypeA == [text |-> <<"A">>, str |-> "A"]
IntText == [text |-> Chars("int"), val |-> Primitive("Int", None, HasDefault_None, None)]
NullText == [text |-> Chars("null"), val |-> Null]

(* field declarations, each valid on its own, with the field it denotes *)
FieldItems ==
    {Written(Primitive("Int", Some("a"), HasDefault_None, None),
             FieldText(NoDoc, "int", FALSE, NameA, NoDefaultTail)),
     Written(Primitive("Long", Some("a"), HasDefault_Default(Some(<<"i64", <<"1">>>>)), None),
             FieldText(NoDoc, "long", FALSE, NameA, DefaultTail(TRUE, <<"1">>))),
     Written(Union(Some("a"), <<Primitive("String", None, HasDefault_None, None), Null>>,
                   HasDefault_None, Some("d1")),
             FieldText(WithDoc, "string", TRUE, NameA, NoDefaultTail)),
     Written(Array(Some("a"), IntText.val, HasDefault_None, None),
             ArrayText(NoDoc, IntText, FALSE, NameA)),
     Written(Array(Some("a"), Unresolved(None, "A", None), HasDefault_None, Some("d1")),
             ArrayText(WithDoc, [text |-> <<"A">>, val |-> Unresolved(None, "A", None)], FALSE,
                       NameA)),
     Written(Unresolved(Some("a"), "A", None), RefText(NoDoc, TypeA, FALSE, FALSE, NameA)),
     Written(optional_reference("a", "A", None), RefText(NoDoc, TypeA, TRUE, FALSE, NameA)),
     Written(Union(Some("a"), <<IntText.val, Null>>, HasDefault_None, None),
             UnionText(NoDoc, <<IntText, NullText>>, NameA, Written(HasDefault_None, NoDefaultTail)))}

(* what stands between two fields and after the last one *)
FieldSeparators == {<<>>, <<"\n", " ">>}

RecordText(items, sep) ==
    Chars("record") \o <<" ", "R", " ", "{">>
    \o Joined([k \in DOMAIN items |-> items[k].text \o sep], <<>>) \o <<"}">>
RecordOf(items) == Record(Some("R"), [k \in DOMAIN items |-> items[k].val], None, None)

ImportDecl ==
    Written(Import("x.avdl"),
            Chars("import") \o <<" ">> \o Chars("idl") \o <<" ", "\"", "x", ".", "a", "v", "d", "l",
                                                           "\"", ";">>)
EnumDecl ==
    Written(Enum(Some("N"), <<"X">>, HasDefault_None, None, None),
            Chars("enum") \o <<" ", "N", " ", "{", "X", "}">>)

(* the declaration lists around a record *)
DeclLists(record) == {<<record>>, <<ImportDecl, record>>, <<record, EnumDecl>>}

NoNamespace == Written(None, <<>>)
NamespaceTexts ==
    {NoNamespace,
     Written(Some("n.s"), <<"@">> \o Chars("namespace")
                          \o <<"(", "\"", "n", ".", "s", "\"", ")", "\n">>)}

(* what follows the closing brace: nothing, whitespace, or something else *)
BlankSuffixes == {<<>>, <<"\n", " ">>}
OtherSuffixes ==
    {<<"x">>, <<"\n", "}">>, <<" ", "/", "*", "*", " ", "*", "/">>, <<"\n">> \o EnumDecl.text}

ProtocolText(ns, decls, suffix) ==
    ns.text \o Chars("protocol") \o <<" ", "P", " ", "{", "\n">>
    \o Joined([k \in DOMAIN decls |-> decls[k].text], <<"\n">>) \o <<"}">> \o suffix
ProtocolOf(ns, decls) ==
    Protocol(Some("P"), [k \in DOMAIN decls |-> decls[k].val], ns.val, None)

----------------------------------------------------------------------------
(* serializer.rs: AvprSerializer.  A JSON value carries its kind; an       *)
(* object is a function from its keys to their values.                     *)

JNull == [json |-> "null"]
JString(x) == [json |-> "string", v |-> x]
JScalar(v) == [json |-> "scalar", v |-> v]
JArray(items) == [json |-> "array", items |-> items]
JObject(members) == [json |-> "object", members |-> members]

(* json!(opt) of an Option<String> *)
json_option(opt) == IF opt = None THEN JNull ELSE JString(opt[1])

(* json_data[k] = v *)
set_key(obj, k, v) ==
    JObject([x \in DOMAIN obj.members \cup {k} |-> IF x = k THEN v ELSE obj.members[x]])

(* serializer.rs 42-46: the default of a field *)
set_default(obj, default) ==
    IF default.hd = "None" THEN obj
    ELSE IF default.v = None THEN set_key(obj, "default", JNull)
    ELSE set_key(obj, "default", JScalar(default.v[1]))

(* serializer.rs 47-49: a key that is written when its value is there *)
set_some(obj, k, opt) == IF opt = None THEN obj ELSE set_key(obj, k, JString(opt[1]))

(* ast.rs 201-218 *)
AvroTypeNames ==
    [Protocol |-> "protocol", Int |-> "int", Long |-> "long", Float |-> "float",
     Double |-> "double", Boolean |-> "boolean", String |-> "string", Record |-> "record",
     Enum |-> "enum", Union |-> "union", Array |-> "array", Null |-> "null"]
get_avro_type_name(field) ==
    IF field.tag \in {"RecordReference", "EnumReference"} THEN Some(field.type)
    ELSE Some(AvroTypeNames[field.tag])

(* the names of the members of a union: filter_map over get_avro_type_name *)
member_type_names(fields) ==
    [k \in DOMAIN fields |-> JString(get_avro_type_name(fields[k])[1])]

RECURSIVE serialize_field(_)
RECURSIVE serialize_each(_, _, _)
(* inner_fields.into_iter().map(|f| self.serialize_field(f).unwrap()).collect() *)
serialize_each(fields, i, acc) ==
    IF i > Len(fields) THEN Ok(acc)
    ELSE LET r == unwrap(serialize_field(fields[i]))
         IN  IF r.st = "Ok" THEN serialize_each(fields, i + 1, Append(acc, r.val)) ELSE r

(* serializer.rs 25-39 *)
serialize_protocol(field) ==
    IF field.nm = None
    THEN Err("MissingName", <<"Protocol doesn't have a name, but this is required!">>)
    ELSE LET types == serialize_each(field.fields, 1, <<>>)
         IN  IF types.st # "Ok" THEN types
             ELSE Ok(set_some(set_some(JObject([protocol |-> JString(field.nm[1]),
                                                types |-> JArray(types.val)]),
                                       "namespace", field.namespace),
                              "doc", field.doc))

(* serializer.rs 112-123 *)
serialize_record(field) ==
    LET fields == serialize_each(field.fields, 1, <<>>)
    IN  IF fields.st # "Ok" THEN fields
        ELSE Ok(set_some(set_some(JObject([type |-> JString("record"),
                                           name |-> json_option(field.nm),
                                           fields |-> JArray(fields.val)]),
                                  "namespace", field.namespace),
                         "doc", field.doc))

(* serializer.rs 124-139 *)
serialize_enum(field) ==
    Ok(set_some(set_some(set_default(JObject([type |-> JString("enum"),
                                              name |-> json_option(field.nm),
                                              symbols |-> JArray([k \in DOMAIN field.values |->
                                                                    JString(field.values[k])])]),
                                     field.default),
                         "namespace", field.namespace),
                "doc", field.doc))

(* serializer.rs 22-192: one arm for each variant of Field *)
serialize_field(field) ==
    CASE field.tag = "Protocol" -> serialize_protocol(field)
      [] field.tag \in PrimitiveTags ->
           Ok(set_some(set_default(JObject([name |-> json_option(field.nm),
                                            type |-> JString(get_avro_type_name(field)[1])]),
                                   field.default),
                       "doc", field.doc))
      [] field.tag = "Record" -> serialize_record(field)
      [] field.tag = "Enum" -> serialize_enum(field)
      [] field.tag = "Union" ->
           Ok(set_some(set_default(JObject([name |-> json_option(field.nm),
                                            type |-> JArray(member_type_names(field.fields))]),
                                   field.default),
                       "doc", field.doc))
      [] field.tag = "Array" ->
           Ok(set_some(JObject([type |-> JString("array"), name |-> json_option(field.nm),
                                items |-> JString(get_avro_type_name(field.inner)[1])]),
                       "doc", field.doc))
      [] field.tag = "RecordReference" ->
           Ok(set_some(JObject([name |-> json_option(field.nm), type |-> JString(field.type)]),
                       "doc", field.doc))
      [] field.tag = "EnumReference" ->
           Ok(set_some(set_default(JObject([name |-> json_option(field.nm),
                                            type |-> JString(field.type)]),
                                   field.default),
                       "doc", field.doc))
      [] OTHER -> Err("InvalidASTDataType", <<"Cannot serialize Field::Null!">>)

(* serializer.rs 18-20 *)
AvprSerializer_serialize(tree) == serialize_field(tree)

(* the trees handed to the serializer: fields of a record, then the        *)
(* records and enums of a protocol with and without a name                 *)
MaxTypes == 2

SerializedFields ==
    {Primitive("Int", Some("a"), HasDefault_Default(Some(<<"i32", <<"1">>>>)), Some("d")),
     Primitive("String", Some("s"), HasDefault_None, None),
     RecordReference(Some("r"), "A", None),
     EnumReference(Some("e"), "M", HasDefault_Default(Some("X")), None),
     Union(Some("u"), <<Primitive("Long", None, HasDefault_None, None), Null>>,
           HasDefault_Default(None), None),
     Array(Some("xs"), Primitive("Int", None, HasDefault_None, None), HasDefault_None, None),
     Null}

SerializedTypes ==
    {Record(nm, fields, None, None) :
        nm \in {None, Some("A")}, fields \in SeqsUpTo(SerializedFields, 1)}
    \cup {Enum(nm, <<"X", "Y">>, default, None, None) :
             nm \in {None, Some("M")},
             default \in {HasDefault_None, HasDefault_Default(Some("X"))}}

----------------------------------------------------------------------------
(* runner.rs: AvroIdlParser::parse.  A run is the list of the calls made   *)
(* so far with their outcomes, whether the run goes on, has returned or    *)
(* has panicked, and what there is of the output document.                 *)

(* runner.rs 33, 34, 39, 43, 45: the n-th call of the body *)
stage_at_create_first(n) ==
    CASE n = 1 -> "parse" [] n = 2 -> "link" [] n = 3 -> "create"
      [] n = 4 -> "serialize" [] OTHER -> "write"
stage_at(n) ==
    CASE n = 1 -> "parse" [] n = 2 -> "link" [] n = 3 -> "serialize"
      [] n = 4 -> "create" [] OTHER -> "write"

LastStage == 5

(* what a call can come to: the library calls return Ok or Err or panic    *)
(* inside (C2, C5, C11), File::create and to_writer return Ok or Err       *)
StageOutcomes(stage) ==
    IF stage \in {"create", "write"}
    THEN {Ok(stage), Err("io", <<stage>>)}
    ELSE {Ok(stage), Err("AvroError", <<stage>>), Panic(<<stage>>)}

NewRun == [done |-> <<>>, status |-> "running", output |-> "absent"]
NoRun == [done |-> <<>>, status |-> "idle", output |-> "absent"]

(* one statement of the body: the call, then .unwrap() on what it returned *)
AvroIdlParser_parse_step(r, outcome) ==
    LET n == Len(r.done) + 1
        stage == stage_at(n)
        res == unwrap(outcome)
    IN  [done |-> Append(r.done, [stage |-> stage, st |-> outcome.st]),
         status |-> IF res.st # "Ok" THEN "panicked"
                    ELSE IF n = LastStage THEN "returned" ELSE "running",
         output |-> IF res.st = "Ok" /\ stage = "create" THEN "created"
                    ELSE IF res.st = "Ok" /\ stage = "write" THEN "written"
                    ELSE r.output]

----------------------------------------------------------------------------
(* The state machine *)

vars == <<unit, protocol, linked, serialized, files, stack, parsed, field_src, field_res, run>>

Units == {"link", "lexer", "field", "member", "enum", "run", "source", "serializer"}

InitLink ==
    /\ \/ \E base \in SeqsUpTo(BaseDecls, MaxDecls - 1), fields \in SeqsUpTo(FieldCands, MaxFields),
            first \in BOOLEAN :
            protocol = LinkInput(base, fields, first)
       \/ \E T \in {"A", "M"}, first \in BOOLEAN :
            \E decls \in SameNameDecls(T), fields \in SeqsUpTo(UsesOf(T), MaxFields) :
               protocol = LinkInput(decls, fields, first)
       \/ protocol \in NonProtocolRoots
    /\ linked = NotRun
    /\ serialized = NotRun
InitSerializer ==
    /\ \/ \E nm \in {None, Some("P")}, namespace \in {None, Some("ns")},
             types \in SeqsUpTo(SerializedTypes, MaxTypes) :
             protocol = Protocol(nm, types, namespace, None)
       \/ protocol \in SerializedTypes \cup SerializedFields
    /\ linked = NotRun
    /\ serialized = NotRun
IdleLink == protocol = Null /\ linked = NotRun /\ serialized = NotRun

InitLexer ==
    /\ \E r \in RootTexts, a \in TextsA, b \in TextsB : files = FileSystem(r, a, b)
    /\ stack = <<>>
    /\ parsed = NotRun
IdleLexer == files = <<>> /\ stack = <<>> /\ parsed = NotRun

InitField ==
    /\ \/ \E d \in DocTexts, kw \in Keywords, q \in BOOLEAN, nm \in NameTexts, t \in Tails :
            field_src = FieldText(d, kw, q, nm, t)
       \/ \E d \in DocTexts, kw \in {"int", "long"}, q \in BOOLEAN, nm \in NameTexts,
             spaced \in BOOLEAN :
             \E n \in TooWideFor(kw) : field_src = FieldText(d, kw, q, nm, DefaultTail(spaced, n))
    /\ field_res = NotRun
InitMember ==
    /\ \/ \E d \in DocTexts, e \in UnnamedTexts, spaced \in BOOLEAN, nm \in NameTexts :
            field_src = ArrayText(d, e, spaced, nm)
       \/ \E d \in DocTexts, members \in SeqsUpTo(UnionMembers, MaxMembers),
             nm \in NameTexts, tail \in UnionTails :
            field_src = UnionText(d, members, nm, tail)
       \/ \E d \in DocTexts, nm \in NameTexts, n \in TooWideFor("int") :
            field_src = UnionText(d, <<IntText, NullText>>, nm,
                                  Written(<<>>, DefaultTail(FALSE, n)))
       \/ \E d \in DocTexts, T \in TypeTexts, optional \in BOOLEAN, spaced \in BOOLEAN,
             nm \in NameTexts :
            field_src = RefText(d, T, optional, spaced, nm)
    /\ field_res = NotRun
InitEnum ==
    /\ \E d \in DocTexts, symbols \in SeqsUpTo(SymbolTexts, MaxSymbols), spaced \in BOOLEAN,
          tail \in EnumTails :
          field_src = EnumText(d, symbols, spaced, tail)
    /\ field_res = NotRun
InitSource ==
    /\ \/ \E items \in SeqsUpTo(FieldItems, MaxRecordFields), sep \in FieldSeparators :
            field_src = ProtocolText(NoNamespace,
                                     <<Written(RecordOf(items), RecordText(items, sep))>>, <<>>)
       \/ \E ns \in NamespaceTexts, items \in SeqsUpTo(FieldItems, 1),
             suffix \in BlankSuffixes \cup OtherSuffixes :
             \E decls \in DeclLists(Written(RecordOf(items), RecordText(items, <<>>))) :
                field_src = ProtocolText(ns, decls, suffix)
    /\ field_res = NotRun
IdleField == field_src = <<>> /\ field_res = NotRun

InitRun == run = NewRun
IdleRun == run = NoRun

Init ==
    /\ unit \in Units
    /\ IF unit = "run" THEN InitRun ELSE IdleRun
    /\ CASE unit = "link" -> InitLink
         [] unit = "serializer" -> InitSerializer
         [] OTHER -> IdleLink
    /\ IF unit = "lexer" THEN InitLexer ELSE IdleLexer
    /\ CASE unit = "field" -> InitField
         [] unit = "member" -> InitMember
         [] unit = "enum" -> InitEnum
         [] unit = "source" -> InitSource
         [] OTHER -> IdleField

(* LinkParser::parse called on the protocol *)
Link ==
    /\ unit = "link"
    /\ linked = NotRun
    /\ linked' = LinkParser_parse(protocol)
    /\ UNCHANGED <<run, unit, protocol, serialized, lexer_vars, field_vars>>

(* AvprSerializer::serialize called on the tree the serializer holds *)
Serialize ==
    /\ unit = "serializer"
    /\ serialized = NotRun
    /\ serialized' = AvprSerializer_serialize(protocol)
    /\ UNCHANGED <<run, unit, protocol, linked, lexer_vars, field_vars>>

Top == stack[Len(stack)]

(* what loading and entering a file leaves: a new activation, or the       *)
(* failure that ends the whole call                                        *)
Entered(rd, path, expect_msg) ==
    IF rd.st # "Ok" THEN Panic(<<expect_msg>>) ELSE parse_idl_enter(rd.val, path)

(* AvroIdlLexer::parse: read the root file and enter parse_idl on it *)
ParseRoot ==
    /\ unit = "lexer"
    /\ parsed = NotRun
    /\ stack = <<>>
    /\ LET e == Entered(read_to_string(RootPath), RootPath, "Failed to Avro IDL file!")
       IN  IF e.st = "Ok"
           THEN stack' = <<e.val>> /\ parsed' = parsed
           ELSE stack' = <<>> /\ parsed' = e
    /\ UNCHANGED <<run, unit, files, link_vars, field_vars>>

(* parse_idl 66-79: the next declaration is not an import *)
StepDecl ==
    /\ unit = "lexer"
    /\ stack # <<>>
    /\ Top.values # <<>>
    /\ ~is_import(Head(Top.values))
    /\ stack' = [stack EXCEPT ![Len(stack)] =
                   [Top EXCEPT !.values = Tail(Top.values),
                               !.res = Append(Top.res,
                                              attach_namespace(Head(Top.values),
                                                               Top.namespace))]]
    /\ UNCHANGED <<run, unit, files, parsed, link_vars, field_vars>>

(* parse_idl 47-55: the next declaration is an import; load the file and   *)
(* start the nested parse_idl                                              *)
StepImport ==
    /\ unit = "lexer"
    /\ stack # <<>>
    /\ Top.values # <<>>
    /\ is_import(Head(Top.values))
    /\ Len(stack) < MaxDepth
    /\ LET dir == parent(Top.path)
           e == IF dir = None THEN Panic(<<"No parent folder">>)
                ELSE LET cur_path == push(dir[1], Head(Top.values).path)
                     IN  Entered(read_to_string(cur_path), cur_path,
                                 "Failed to load import reference")
       IN  IF e.st = "Ok"
           THEN stack' = Append(stack, e.val) /\ parsed' = parsed
           ELSE stack' = <<>> /\ parsed' = e
    /\ UNCHANGED <<run, unit, files, link_vars, field_vars>>

(* parse_idl 81, then 55-64 in the importing activation: the protocol is   *)
(* returned; an importer takes its declarations in place of the import     *)
Return ==
    /\ unit = "lexer"
    /\ stack # <<>>
    /\ Top.values = <<>>
    /\ LET import == Ok(Protocol(Top.nm, Top.res, Top.namespace, Top.docstring))
       IN  IF Len(stack) = 1
           THEN stack' = <<>> /\ parsed' = import
           ELSE LET caller == stack[Len(stack) - 1]
                    resumed == [caller EXCEPT !.values = Tail(caller.values),
                                              !.res = splice(caller.res, import.val.fields)]
                IN  /\ stack' = Append(SubSeq(stack, 1, Len(stack) - 2), resumed)
                    /\ parsed' = parsed
    /\ UNCHANGED <<run, unit, files, link_vars, field_vars>>

(* create_primitive_parser run on the text of a record field *)
ParseField ==
    /\ unit = "field"
    /\ field_res = NotRun
    /\ field_res' = create_primitive_parser(field_src, 1)
    /\ UNCHANGED <<run, unit, field_src, link_vars, lexer_vars>>

(* the choice of record fields run on the text of an array, union or       *)
(* reference field                                                         *)
ParseMember ==
    /\ unit = "member"
    /\ field_res = NotRun
    /\ field_res' = record_field_parser(field_src, 1)
    /\ UNCHANGED <<run, unit, field_src, link_vars, lexer_vars>>

(* enum_parser run on the text of an enum declaration *)
ParseEnum ==
    /\ unit = "enum"
    /\ field_res = NotRun
    /\ field_res' = enum_parser(field_src, 1)
    /\ UNCHANGED <<run, unit, field_src, link_vars, lexer_vars>>

(* the grammar of create_chumsky_parser run on the text of a file *)
ParseSource ==
    /\ unit = "source"
    /\ field_res = NotRun
    /\ field_res' = create_chumsky_parser(field_src)
    /\ UNCHANGED <<run, unit, field_src, link_vars, lexer_vars>>

(* AvroIdlParser::parse: the next statement of the body *)
RunStage ==
    /\ unit = "run"
    /\ run.status = "running"
    /\ \E outcome \in StageOutcomes(stage_at(Len(run.done) + 1)) :
          run' = AvroIdlParser_parse_step(run, outcome)
    /\ UNCHANGED <<unit, link_vars, lexer_vars, field_vars>>

Next ==
    \/ Link \/ ParseRoot \/ StepDecl \/ StepImport \/ Return \/ ParseField
    \/ ParseMember \/ ParseEnum \/ RunStage \/ ParseSource \/ Serialize

Spec == Init /\ [][Next]_vars

(* AvroIdlLexer::parse alone, on files that declare nothing twice.  The    *)
(* call is one sequential computation: whenever a step of it can be taken, *)
(* it is taken.                                                            *)
NoRepeats(src) ==
    src.kind = "idl"
      => \A i, j \in DOMAIN src.tree.fields :
            src.tree.fields[i] = src.tree.fields[j] => i = j
LexerInit ==
    /\ unit = "lexer"
    /\ \E r \in RootTexts, a \in TextsA, b \in TextsB :
          /\ NoRepeats(r) /\ NoRepeats(a) /\ NoRepeats(b)
          /\ files = FileSystem(r, a, b)
    /\ stack = <<>>
    /\ parsed = NotRun
    /\ IdleRun
    /\ IdleLink
    /\ IdleField
LexerNext == ParseRoot \/ StepDecl \/ StepImport \/ Return
LexerSpec == LexerInit /\ [][LexerNext]_vars /\ WF_vars(LexerNext)

----------------------------------------------------------------------------
(* Claims about the linker *)

LinkCalled == unit = "link" /\ linked # NotRun
Linked == LinkCalled /\ protocol.tag = "Protocol"
LinkedOk == Linked /\ linked.st = "Ok"

UsesAt(T) == {p \in PathsOf(protocol) : NodeAt(protocol, p).tag = "Unresolved"
                                          /\ NodeAt(protocol, p).type = T}
AllUses == {p \in PathsOf(protocol) : NodeAt(protocol, p).tag = "Unresolved"}

FirstDeclIs(T, tag) ==
    /\ DeclsNamed(protocol, T) # <<>>
    /\ DeclsNamed(protocol, T)[1].tag = tag

(* C1 (as stated): a use of a top-level enum declared with DefaultValue(s) *)
(* links to an EnumReference carrying that declared default                *)
C1_DeclaredDefault ==
    LinkedOk =>
      \A p \in AllUses :
        LET n == NodeAt(protocol, p) IN
        (FirstDeclIs(n.type, "Enum") /\ DeclsNamed(protocol, n.type)[1].default.hd = "Default")
          => NodeAt(linked.val, p) =
               EnumReference(n.nm, n.type, DeclsNamed(protocol, n.type)[1].default, n.doc)

(* C1 (amended): a use of a top-level enum links, at the same position, to *)
(* an EnumReference with the use site's name and docstring and with        *)
(* HasDefault::None, whatever default the enum declares                    *)
C1_EnumReferenceNoDefault ==
    LinkedOk =>
      \A p \in AllUses :
        LET n == NodeAt(protocol, p) IN
        FirstDeclIs(n.type, "Enum")
          => NodeAt(linked.val, p) = EnumReference(n.nm, n.type, HasDefault_None, n.doc)

C1_Witness ==
    /\ LinkedOk
    /\ \E p \in AllUses :
          /\ FirstDeclIs(NodeAt(protocol, p).type, "Enum")
          /\ DeclsNamed(protocol, NodeAt(protocol, p).type)[1].default
               = HasDefault_Default(Some("X"))
          /\ NodeAt(linked.val, p).tag = "EnumReference"

Undeclared(T) == DeclsNamed(protocol, T) = <<>>

(* nodes the linker rejects by shape: a Protocol below the root, an Import *)
Misplaced == {p \in PathsOf(protocol) \ {<<>>} :
                NodeAt(protocol, p).tag \in {"Protocol", "Import"}}

(* C2: a protocol whose only defect is an Unresolved node naming an        *)
(* undeclared type T makes LinkParser::parse return Err(UndefinedReference)*)
(* whose message names T                                                   *)
C2_UndefinedReferenceReturned ==
    (/\ Linked
     /\ Misplaced = {}
     /\ \E p \in AllUses : Undeclared(NodeAt(protocol, p).type))
      => /\ linked.st = "Err"
         /\ linked.kind = "UndefinedReference"
         /\ \E p \in AllUses :
               /\ Undeclared(NodeAt(protocol, p).type)
               /\ linked.msg = undefined_reference_msg(NodeAt(protocol, p).type)

(* C4: a use of a top-level record links, at the same position, to a       *)
(* RecordReference with the use site's name, type name and docstring       *)
C4_RecordReference ==
    LinkedOk =>
      \A p \in AllUses :
        LET n == NodeAt(protocol, p) IN
        FirstDeclIs(n.type, "Record")
          => NodeAt(linked.val, p) = RecordReference(n.nm, n.type, n.doc)

C4_Witness ==
    /\ LinkedOk
    /\ \E p \in AllUses :
          /\ FirstDeclIs(NodeAt(protocol, p).type, "Record")
          /\ NodeAt(protocol, p).nm = Some("f")
          /\ NodeAt(linked.val, p).tag = "RecordReference"

(* C5: a protocol whose only defect is a Protocol node below the root or   *)
(* an Import node makes LinkParser::parse return Err(InvalidASTDataType)   *)
C5_InvalidShapeReturned ==
    (/\ Linked
     /\ Misplaced # {}
     /\ \A p \in AllUses : ~Undeclared(NodeAt(protocol, p).type))
      => linked.st = "Err" /\ linked.kind = "InvalidASTDataType"

(* the names that two or more top-level declarations share *)
SharedNames ==
    {T \in {"A", "M", "B"} : unit = "link" /\ protocol.tag = "Protocol"
                               /\ Len(DeclsNamed(protocol, T)) >= 2}

(* C29: when declarations share a name, every use of the name links to a   *)
(* reference of the kind of the first of them, and every declaration is    *)
(* in the output at its place                                              *)
C29_FirstDeclarationWins ==
    (Linked /\ SharedNames # {} /\ Misplaced = {}
       /\ \A p \in AllUses : ~Undeclared(NodeAt(protocol, p).type))
      => /\ linked.st = "Ok"
         /\ \A T \in SharedNames : \A p \in UsesAt(T) :
               /\ NodeAt(linked.val, p).type = T
               /\ NodeAt(linked.val, p).nm = NodeAt(protocol, p).nm
               /\ FirstDeclIs(T, "Record") => NodeAt(linked.val, p).tag = "RecordReference"
               /\ FirstDeclIs(T, "Enum") => NodeAt(linked.val, p).tag = "EnumReference"
         /\ Len(linked.val.fields) = Len(protocol.fields)
         /\ \A i \in DOMAIN protocol.fields :
               /\ linked.val.fields[i].tag = protocol.fields[i].tag
               /\ linked.val.fields[i].nm = protocol.fields[i].nm

C29_Witness ==
    /\ LinkedOk
    /\ "A" \in SharedNames
    /\ FirstDeclIs("A", "Enum")
    /\ DeclsNamed(protocol, "A")[2].tag = "Record"
    /\ \E p \in UsesAt("A") : NodeAt(linked.val, p) = EnumReference(Some("f"), "A", HasDefault_None, Some("d"))

(* the names the protocol declares at top level *)
DeclaredNames == {n[1] : n \in {name(protocol.fields[i]) : i \in DOMAIN protocol.fields} \ {None}}

(* C14: the declaration the name lookup returns has its default reset to   *)
(* HasDefault::None, also when the declared enum has a default, and so     *)
(* has every EnumReference linked to that enum                             *)
C14_LookupResetsDefault ==
    Linked =>
      \A T \in DeclaredNames :
        FirstDeclIs(T, "Enum")
          => /\ find_field_by_name(protocol, T) # None
             /\ find_field_by_name(protocol, T)[1].values = DeclsNamed(protocol, T)[1].values
             /\ find_field_by_name(protocol, T)[1].default = HasDefault_None
             /\ LinkedOk => \A p \in UsesAt(T) :
                              NodeAt(linked.val, p).default = HasDefault_None

C14_Witness ==
    /\ LinkedOk
    /\ FirstDeclIs("M", "Enum")
    /\ DeclsNamed(protocol, "M")[1].default = HasDefault_Default(Some("X"))
    /\ \E p \in UsesAt("M") :
          NodeAt(linked.val, p) = EnumReference(Some("f"), "M", HasDefault_None, Some("d"))

(* C15: a protocol with no Unresolved, no Import and no nested Protocol    *)
(* links successfully to a tree equal to the input                         *)
C15_PassThrough ==
    (Linked /\ AllUses = {} /\ Misplaced = {}) => linked = Ok(protocol)

C15_Witness ==
    /\ LinkedOk
    /\ AllUses = {} /\ Misplaced = {}
    /\ FirstDeclIs("M", "Enum")
    /\ DeclsNamed(protocol, "M")[1].default = HasDefault_Default(Some("X"))
    /\ DeclsNamed(protocol, "B")[1].fields = <<ResolvedUnion, NestedRecord>>
    /\ linked.val = protocol

(* the node a raw node links to: a reference for an Unresolved, the same   *)
(* variant otherwise, with the same name                                   *)
Counterpart(a, b) ==
    /\ b.tag \in (IF a.tag = "Unresolved" THEN {"RecordReference", "EnumReference"}
                  ELSE {a.tag})
    /\ a.tag # "Null" => b.nm = a.nm

RECURSIVE InOrder(_, _)
InOrder(a, b) ==
    /\ Counterpart(a, b)
    /\ Len(Children(b)) = Len(Children(a))
    /\ \A i \in DOMAIN Children(a) : InOrder(Children(a)[i], Children(b)[i])

(* C16: every child list of a linked protocol has the length of the input  *)
(* list, and its i-th element is the counterpart of the i-th input element *)
C16_OrderAndLength == LinkedOk => InOrder(protocol, linked.val)

C16_Witness ==
    /\ LinkedOk
    /\ Len(protocol.fields) >= 3
    /\ protocol.fields[1].nm = Some("B")
    /\ protocol.fields[1].fields = <<PlainUse("A"), UnionUse("M")>>
    /\ linked.val.fields[1].fields[1].tag = "RecordReference"
    /\ linked.val.fields[1].fields[2].fields[1].tag = "EnumReference"

(* what a use of T resolves to, from T and the top-level declarations only *)
Resolution(n) ==
    IF FirstDeclIs(n.type, "Record") THEN RecordReference(n.nm, n.type, n.doc)
    ELSE EnumReference(n.nm, n.type, HasDefault_None, n.doc)

(* C17: a use resolves by its type name against the top-level declarations *)
(* alone, wherever it stands and wherever the declaration stands; a name   *)
(* declared only inside a record does not resolve                          *)
C17_FlatLookup ==
    Linked =>
      /\ (\E p \in AllUses : Undeclared(NodeAt(protocol, p).type)) => linked.st # "Ok"
      /\ LinkedOk => \A p \in AllUses :
                       NodeAt(linked.val, p) = Resolution(NodeAt(protocol, p))

C17_Witness ==
    /\ LinkedOk
    /\ protocol.fields[1].nm = Some("B")
    /\ protocol.fields[1].fields = <<ArrayUse("A"), PlainUse("B")>>
    /\ linked.val.fields[1].fields[1].inner = RecordReference(None, "A", None)
    /\ linked.val.fields[1].fields[2] = RecordReference(Some("f"), "B", Some("d"))

(* C18: a root that is not a Protocol makes LinkParser::parse return       *)
(* Err(InvalidASTDataType)                                                 *)
C18_RootMustBeProtocol ==
    (LinkCalled /\ protocol.tag # "Protocol")
      => linked.st = "Err" /\ linked.kind = "InvalidASTDataType"

C18_Witness ==
    /\ LinkCalled
    /\ protocol = RecordA
    /\ linked.st = "Err"

----------------------------------------------------------------------------
(* Claims about the import flattening *)

LexedOk == unit = "lexer" /\ parsed.st = "Ok"

FileDecls(path) == files[path].tree.fields
ImportsOf(path) == {FileDecls(path)[i].path : i \in {j \in DOMAIN FileDecls(path) :
                                                     FileDecls(path)[j].tag = "Import"}}

(* the files that declare a record or enum of that name *)
DeclaringFiles(nm) ==
    {f \in DOMAIN files :
       /\ files[f].kind = "idl"
       /\ \E j \in DOMAIN FileDecls(f) : name(FileDecls(f)[j]) = nm}

(* C3 (as stated): every top-level record and enum of the flattened        *)
(* protocol carries the namespace of the root protocol                     *)
C3_RootNamespaceEverywhere ==
    LexedOk =>
      \A i \in DOMAIN parsed.val.fields :
        parsed.val.fields[i].tag \in {"Record", "Enum"}
          => parsed.val.fields[i].namespace = files[RootPath].tree.namespace

(* C3 (amended): every top-level record and enum of the flattened protocol *)
(* carries the namespace of the protocol of the file that declares it: the *)
(* root's for a local declaration, the imported file's own for a spliced   *)
(* one, at any import depth                                                *)
C3_DeclaringFileNamespace ==
    LexedOk =>
      \A i \in DOMAIN parsed.val.fields :
        LET d == parsed.val.fields[i] IN
        d.tag \in {"Record", "Enum"}
          => /\ DeclaringFiles(d.nm) # {}
             /\ \A f \in DeclaringFiles(d.nm) : d.namespace = files[f].tree.namespace

C3_Witness ==
    /\ LexedOk
    /\ ImportsOf(RootPath) = {"a.avdl"}
    /\ "b.avdl" \in ImportsOf(PathA)
    /\ \E i, j, k \in DOMAIN parsed.val.fields :
         /\ parsed.val.fields[i].nm = Some("R")
         /\ parsed.val.fields[i].namespace = Some("ns.root")
         /\ parsed.val.fields[j].nm \in {Some("A"), Some("M")}
         /\ parsed.val.fields[j].namespace = Some("ns.import")
         /\ parsed.val.fields[k].nm \in {Some("C"), Some("N")}
         /\ parsed.val.fields[k].namespace = None

(* C9: the protocol parse_idl returns holds no Import node at any depth *)
C9_NoImportRemains ==
    LexedOk => \A p \in PathsOf(parsed.val) : NodeAt(parsed.val, p).tag # "Import"

C9_Witness ==
    /\ LexedOk
    /\ "a.avdl" \in ImportsOf(RootPath)
    /\ "b.avdl" \in ImportsOf(PathA)
    /\ Len(parsed.val.fields) > 0

(* the declarations of a file with every import replaced, in place, by the *)
(* declarations of the file it names                                       *)
RECURSIVE InPlace(_)
InPlace(decls) ==
    IF decls = <<>> THEN <<>>
    ELSE (IF Head(decls).tag = "Import"
          THEN InPlace(FileDecls(push(Dir, Head(decls).path)))
          ELSE <<Head(decls)>>) \o InPlace(Tail(decls))

WithoutNamespace(decls) ==
    [i \in DOMAIN decls |->
       IF decls[i].tag \in {"Record", "Enum"} THEN [decls[i] EXCEPT !.namespace = None]
       ELSE decls[i]]

(* C10: the flattened protocol lists the declarations in source order,     *)
(* those of an imported file standing where its import statement stood     *)
C10_OrderPreserved ==
    LexedOk => WithoutNamespace(parsed.val.fields) = InPlace(FileDecls(RootPath))

C10_Witness ==
    /\ LexedOk
    /\ Len(FileDecls(RootPath)) = 2
    /\ FileDecls(RootPath)[1].tag = "Record"
    /\ FileDecls(RootPath)[2] = Import("a.avdl")
    /\ Len(FileDecls(PathA)) = 2
    /\ Len(parsed.val.fields) >= 3
    /\ parsed.val.fields[1].nm = Some("R")

LexerDone == unit = "lexer" /\ parsed # NotRun

(* C11: a root file the grammar cannot match makes parse_idl return        *)
(* Err(FailedParsing) to its caller                                        *)
C11_FailedParsingReturned ==
    (LexerDone /\ files[RootPath] = Malformed)
      => parsed.st = "Err" /\ parsed.kind = "FailedParsing"

(* C12: with a well-formed root, a call that does not succeed failed in an *)
(* imported file (it is missing or malformed), and the failure reaches the *)
(* caller as an Err value                                                  *)
C12_ImportFailurePropagated ==
    (LexerDone /\ files[RootPath] # Malformed /\ parsed.st # "Ok")
      => parsed.st = "Err"

(* the files a file imports, and the files reached from it by imports *)
Parseable(f) == f \in DOMAIN files /\ files[f].kind = "idl"
Imported(f) == IF Parseable(f) THEN {push(Dir, q) : q \in ImportsOf(f)} ELSE {}

RECURSIVE Closure(_, _)
Closure(S, n) ==
    IF n = 0 THEN S ELSE Closure(S \cup UNION {Imported(g) : g \in S}, n - 1)
ReachedFrom(f) == Closure(Imported(f), Cardinality(DOMAIN files))

OnCycle(f) == f \in ReachedFrom(f)
CycleReached == \E f \in {RootPath} \cup ReachedFrom(RootPath) : OnCycle(f)

(* C23: when a cycle of imports is reached from the root file, the call    *)
(* returns no result, no activation on a file of the cycle comes to its    *)
(* end, and nothing keeps a file that is being parsed from being entered   *)
(* again                                                                   *)
C23_CycleNeverReturns ==
    unit = "lexer"
      => \/ /\ parsed.st \notin {"Ok", "Err"}
            /\ \A k \in DOMAIN stack : stack[k].values = <<>> => ~OnCycle(stack[k].path)
            /\ \A k \in DOMAIN stack :
                  k < Len(stack) => /\ is_import(Head(stack[k].values))
                                    /\ stack[k + 1].path = push(Dir, Head(stack[k].values).path)
         \/ ~CycleReached

C23_Witness ==
    /\ unit = "lexer"
    /\ CycleReached
    /\ Len(stack) = MaxDepth
    /\ stack[1].path = RootPath
    /\ \E k \in 2..Len(stack) : stack[k].path = RootPath
    /\ parsed = NotRun

(* every file reached from the root can be read and parsed, and no file    *)
(* is reached from itself                                                  *)
AcyclicAndParseable ==
    /\ unit = "lexer"
    /\ ~CycleReached
    /\ \A f \in {RootPath} \cup ReachedFrom(RootPath) : Parseable(f)

(* the call has returned a Protocol with the header of the root file *)
ReturnedRootProtocol ==
    /\ stack = <<>>
    /\ parsed.st = "Ok"
    /\ parsed.val.tag = "Protocol"
    /\ parsed.val.nm = files[RootPath].tree.nm
    /\ parsed.val.namespace = files[RootPath].tree.namespace

(* C28: with acyclic imports of readable, parseable files the call nests   *)
(* no deeper than there are files, and it ends by returning a Protocol     *)
(* with the name and the namespace of the root file                        *)
C28_AcyclicImportsTerminate ==
    /\ [](AcyclicAndParseable => Len(stack) <= Cardinality(DOMAIN files))
    /\ AcyclicAndParseable ~> ReturnedRootProtocol

C28_Witness ==
    /\ AcyclicAndParseable
    /\ ImportsOf(RootPath) = {"a.avdl"}
    /\ ImportsOf(PathA) = {"b.avdl"}
    /\ Len(stack) = 3

----------------------------------------------------------------------------
(* Claims about the serializer *)

Serialized == unit = "serializer" /\ serialized # NotRun

(* the nodes of the tree that are of a variant and carry no name *)
Nameless(tag) ==
    {q \in PathsOf(protocol) : NodeAt(protocol, q).tag = tag /\ NodeAt(protocol, q).nm = None}

MissingName(result) == result.st = "Err" /\ result.kind = "MissingName"

(* C24: serializing a tree in which a Protocol, a Record or an Enum has no *)
(* name fails with MissingName                                             *)
C24_MissingNameForEachVariant ==
    (Serialized /\ \E tag \in {"Protocol", "Record", "Enum"} : Nameless(tag) # {})
      => MissingName(serialized)

----------------------------------------------------------------------------
(* Claims about the runner *)

C13_Order == <<"parse", "link", "serialize", "create", "write">>

(* C13: the calls of a run are made in the order parse, link, serialize,   *)
(* create, write; once one of the first three has failed the run has       *)
(* stopped there and no output document has been created or written        *)
C13_StagesInOrder ==
    unit = "run" =>
      /\ \A i \in DOMAIN run.done : run.done[i].stage = C13_Order[i]
      /\ \A i \in DOMAIN run.done :
            (i <= 3 /\ run.done[i].st # "Ok")
              => /\ Len(run.done) = i
                 /\ run.status = "panicked"
                 /\ run.output = "absent"
      /\ run.output # "absent"
            => /\ Len(run.done) >= 4
               /\ \A i \in 1..4 : run.done[i].st = "Ok"
      /\ run.output = "written" => run.status = "returned"

C13_Witness ==
    /\ unit = "run"
    /\ Len(run.done) = 3
    /\ run.done[3] = [stage |-> "serialize", st |-> "Err"]
    /\ run.status = "panicked"
    /\ run.output = "absent"

----------------------------------------------------------------------------
(* Claims about the grammar of primitive fields *)

Parsed(text) == unit = "field" /\ field_res # NotRun /\ field_src = text

(* C6: an accepted field that is a bare primitive never has the default    *)
(* HasDefault::Default(None)                                               *)
C6_NoNullDefaultOnPrimitive ==
    (/\ unit = "field"
     /\ field_res # NotRun
     /\ field_res.r = "ok"
     /\ field_res.out.tag \in PrimitiveTags)
      => field_res.out.default # HasDefault_Default(None)

NullableUnion(kw, nm, default, d) ==
    Union(Some(nm.str), <<Primitive(TagOf(kw), None, HasDefault_None, None), Null>>,
          default, d.doc)

(* the nullable texts and the field each is to become *)
C7_Cases ==
    UNION {{<<FieldText(d, kw, TRUE, nm, NoDefaultTail),
              NullableUnion(kw, nm, HasDefault_None, d)>>}
           \cup {<<FieldText(d, kw, TRUE, nm, DefaultTail(sp, Chars("null"))),
                   NullableUnion(kw, nm, HasDefault_Default(None), d)>> : sp \in BOOLEAN}
           \cup {<<FieldText(d, kw, TRUE, nm, DefaultTail(sp, w.text)),
                   NullableUnion(kw, nm, HasDefault_Default(Some(Literal(TagOf(kw), w.val))),
                                 d)>> : sp \in BOOLEAN, w \in ValuesOf(kw)} :
           d \in DocTexts, kw \in Keywords, nm \in NameTexts}

(* C7: K? name; is Union(name, [K, Null], NoDefault), K? name = null; the  *)
(* same union with DefaultNull, K? name = v; the same union with           *)
(* DefaultValue(Literal of K's kind holding v); the inner K has no default *)
C7_NullableDesugaring ==
    (unit = "field" /\ field_res # NotRun)
      => \A c \in C7_Cases :
           field_src = c[1] => field_res = POk(Len(field_src) + 1, c[2])

C7_Witness ==
    /\ unit = "field"
    /\ field_res # NotRun
    /\ field_res.r = "ok"
    /\ field_res.out.tag = "Union"
    /\ field_res.out.default = HasDefault_Default(Some(Literal("Float", <<"f32", TRUE, 21, 2>>)))
    /\ field_res.out.doc = Some("d1")

(* the non-nullable texts and the field each is to become *)
C8_Cases ==
    UNION {{<<FieldText(d, kw, FALSE, nm, NoDefaultTail),
              Primitive(TagOf(kw), Some(nm.str), HasDefault_None, d.doc)>>}
           \cup {<<FieldText(d, kw, FALSE, nm, DefaultTail(sp, w.text)),
                   Primitive(TagOf(kw), Some(nm.str), HasDefault_Default(Some(w.val)),
                             d.doc)>> : sp \in BOOLEAN, w \in ValuesOf(kw)} :
           d \in DocTexts, kw \in Keywords, nm \in NameTexts}

(* C8: K name; is K(name, NoDefault) and K name = v; is                    *)
(* K(name, DefaultValue(v)), the default stored on the primitive itself    *)
C8_PrimitiveDefaults ==
    (unit = "field" /\ field_res # NotRun)
      => \A c \in C8_Cases :
           field_src = c[1] => field_res = POk(Len(field_src) + 1, c[2])

C8_Witness ==
    /\ unit = "field"
    /\ field_res # NotRun
    /\ field_res.r = "ok"
    /\ field_res.out.tag = "Long"
    /\ field_res.out.nm = Some("id_2")
    /\ field_res.out.default = HasDefault_Default(Some(<<"i64", Decimal(MaxIntLit)>>))

(* the explicit union a nullable field is short for: union{K, null} in     *)
(* the place of K?                                                         *)
ExplicitText(d, kw, nm, tail) ==
    d.text \o Chars("union") \o <<"{">> \o Chars(kw) \o <<",", " ">> \o Chars("null")
    \o <<"}", " ">> \o nm.text \o tail

C25_Cases ==
    {[short |-> FieldText(d, kw, TRUE, nm, t), explicit |-> ExplicitText(d, kw, nm, t)] :
        d \in DocTexts, kw \in Keywords, nm \in NameTexts, t \in Tails}

(* C25: a nullable field and the explicit union of its type and null, with *)
(* the same default accepted by both, parse to the same tree               *)
C25_ShorthandIsExplicitUnion ==
    \A c \in C25_Cases :
        (unit = "field" /\ field_src = c.short /\ field_res # NotRun /\ field_res.r = "ok")
          => LET explicit == record_field_parser(c.explicit, 1)
             IN  explicit.r = "ok" => explicit.out = field_res.out

----------------------------------------------------------------------------
(* Claims about array and union fields and enum declarations *)

(* the array and union texts and the field each is to become *)
C19_Cases ==
    UNION {{<<ArrayText(d, e, spaced, nm),
              Array(Some(nm.str), e.val, HasDefault_None, d.doc)>> :
              e \in UnnamedTexts, spaced \in BOOLEAN}
           \cup {<<UnionText(d, members, nm, tail),
                   Union(Some(nm.str), [k \in DOMAIN members |-> members[k].val], tail.val,
                         d.doc)>> :
                   members \in SeqsUpTo(UnionMembers, MaxMembers), tail \in UnionTails} :
           d \in DocTexts, nm \in NameTexts}

(* C19: array<E> xs; is Array(xs, unnamed E, NoDefault); union{M1..Mn} v   *)
(* with ';' is Union(v, [M1..Mn], NoDefault), with '= null;' the union     *)
(* with DefaultNull, with '= lit;' the union with DefaultValue(Literal);   *)
(* no union has the default DefaultValue(Literal::Null)                    *)
C19_ArrayAndUnionFields ==
    (unit = "member" /\ field_res # NotRun)
      => /\ \A c \in C19_Cases :
              field_src = c[1] => field_res = POk(Len(field_src) + 1, c[2])
         /\ (field_res.r = "ok" /\ field_res.out.tag = "Union")
              => field_res.out.default # HasDefault_Default(Some(Literal("Null", <<>>)))

C19_Witness ==
    /\ unit = "member"
    /\ field_res # NotRun
    /\ field_res.r = "ok"
    /\ field_res.out.tag = "Union"
    /\ field_res.out.fields = <<Primitive("Double", None, HasDefault_None, None), Null>>
    /\ field_res.out.default = HasDefault_Default(None)

(* the enum texts and the declaration each is to become *)
C20_Cases ==
    {<<EnumText(d, symbols, spaced, tail),
       Enum(Some("N"), symbols, tail.val, None, d.doc)>> :
       d \in DocTexts, symbols \in SeqsUpTo(SymbolTexts, MaxSymbols) \ {<<>>},
       spaced \in BOOLEAN, tail \in EnumTails}

(* C20: enum N { S1, ..., Sk } with k >= 1 is Enum(N, [S1..Sk], NoDefault) *)
(* ending at '}', and followed by '= D;' it is Enum(N, [S1..Sk],           *)
(* DefaultValue(D)), whether or not D is one of the symbols                *)
C20_EnumDeclarations ==
    (unit = "enum" /\ field_res # NotRun)
      => \A c \in C20_Cases :
           field_src = c[1] => field_res = POk(Len(field_src) + 1, c[2])

C20_Witness ==
    /\ unit = "enum"
    /\ field_res # NotRun
    /\ field_res.r = "ok"
    /\ field_res.out.values = <<"Y", "X">>
    /\ field_res.out.default = HasDefault_Default(Some("Q"))

(* the reference texts and the field each is to become *)
C21_Cases ==
    UNION {{<<RefText(d, T, FALSE, spaced, nm), Unresolved(Some(nm.str), T.str, d.doc)>>,
            <<RefText(d, T, TRUE, spaced, nm),
              Union(Some(nm.str), <<Unresolved(None, T.str, None), Null>>, HasDefault_None,
                    d.doc)>>} :
           d \in DocTexts, T \in TypeTexts, spaced \in BOOLEAN, nm \in NameTexts}

(* C21: T f; with T no primitive keyword is Unresolved(f, T, doc); T? f;   *)
(* is Union(f, [Unresolved(no name, T, no doc), Null], NoDefault, doc)     *)
C21_ReferenceFields ==
    (unit = "member" /\ field_res # NotRun)
      => \A c \in C21_Cases :
           field_src = c[1] => field_res = POk(Len(field_src) + 1, c[2])

C21_Witness ==
    /\ unit = "member"
    /\ field_res # NotRun
    /\ field_res.r = "ok"
    /\ field_res.out.tag = "Union"
    /\ field_res.out.nm = Some("id_2")
    /\ field_res.out.doc = Some("d1")
    /\ field_res.out.fields = <<Unresolved(None, "integer", None), Null>>

----------------------------------------------------------------------------
(* Claims about the grammar of whole files *)

SourceParsed == unit = "source" /\ field_res # NotRun

(* the position after the last character of the text that is not blank *)
RECURSIVE LastNonBlank(_)
LastNonBlank(s) ==
    IF s = <<>> \/ s[Len(s)] \notin Whitespace THEN Len(s)
    ELSE LastNonBlank(SubSeq(s, 1, Len(s) - 1))

(* the texts in which something other than whitespace follows the closing *)
(* brace of the protocol                                                   *)
C22_Texts ==
    UNION {{ProtocolText(ns, decls, suffix) :
              decls \in DeclLists(Written(RecordOf(items), RecordText(items, <<>>)))} :
           ns \in NamespaceTexts, items \in SeqsUpTo(FieldItems, 1), suffix \in OtherSuffixes}

(* C22: a text with anything but whitespace after the closing brace of the *)
(* protocol is never parsed to a Protocol; a parse that succeeds has read  *)
(* the text to its end                                                     *)
C22_EndOfInputRequired ==
    SourceParsed =>
      /\ field_src \in C22_Texts => field_res.r # "ok"
      /\ field_res.r = "ok"
           => /\ field_res.pos = Len(field_src) + 1
              /\ field_src[LastNonBlank(field_src)] = "}"

C22_Witness ==
    /\ SourceParsed
    /\ field_src \in C22_Texts
    /\ field_src[Len(field_src)] = "x"
    /\ create_chumsky_parser(SubSeq(field_src, 1, Len(field_src) - 1)).r = "ok"
    /\ field_res = PFail

(* the array field written without a docstring *)
PlainArray ==
    Written(Array(Some("a"), IntText.val, HasDefault_None, None),
            ArrayText(NoDoc, IntText, FALSE, NameA))

(* the files of one record whose fields are separated by whitespace and    *)
(* have the plain array among them, each with the tree it is written from  *)
C26_Cases ==
    {Written(ProtocolOf(NoNamespace, <<Written(RecordOf(items), <<>>)>>),
             ProtocolText(NoNamespace,
                          <<Written(RecordOf(items), RecordText(items, <<"\n", " ">>))>>, <<>>)) :
       items \in {q \in SeqsUpTo(FieldItems, MaxRecordFields) :
                    \E k \in DOMAIN q : q[k] = PlainArray}}

(* C26: an array field without a docstring is accepted at every position   *)
(* of the field list of a record                                           *)
C26_ArrayAtEveryPosition ==
    \A c \in C26_Cases :
        (SourceParsed /\ field_src = c.text) => field_res = POk(Len(c.text) + 1, c.val)

(* the nodes of a parsed tree that are references to a type of the name *)
ReferencesTo(tree, type) ==
    {q \in PathsOf(tree) : NodeAt(tree, q).tag = "Unresolved" /\ NodeAt(tree, q).type = type}

(* C27: a parse that succeeds holds no reference whose type name is a      *)
(* primitive keyword, and no array element or union member that is a       *)
(* reference to the name null                                              *)
C27_KeywordPriority ==
    (unit \in {"field", "member", "source"} /\ field_res # NotRun /\ field_res.r = "ok")
      => /\ \A kw \in Keywords : ReferencesTo(field_res.out, kw) = {}
         /\ \A q \in ReferencesTo(field_res.out, "null") : NodeAt(field_res.out, q).nm # None

C27_Witness ==
    /\ SourceParsed
    /\ field_res.r = "ok"
    /\ field_res.out.fields
         = <<Record(Some("R"),
                    <<Primitive("Int", Some("a"), HasDefault_None, None),
                      Array(Some("a"), IntText.val, HasDefault_None, None)>>,
                    None, None)>>
(* the fields whose integer default does not fit the width of its type *)
C30_Texts ==
    {FieldText(d, kw, q, nm, DefaultTail(sp, n)) :
       d \in DocTexts, kw \in {"int"}, q \in BOOLEAN, nm \in NameTexts, sp \in BOOLEAN,
       n \in TooWideFor("int")}
    \cup {FieldText(d, kw, q, nm, DefaultTail(sp, n)) :
            d \in DocTexts, kw \in {"long"}, q \in BOOLEAN, nm \in NameTexts, sp \in BOOLEAN,
            n \in TooWideFor("long")}
    \cup {UnionText(d, <<IntText, NullText>>, nm, Written(<<>>, DefaultTail(FALSE, n))) :
            d \in DocTexts, nm \in NameTexts, n \in TooWideFor("int")}

(* C30: parsing a field whose integer default does not fit its type ends   *)
(* with a returned failure: no panic, and no tree                          *)
C30_OverflowReturnsFailure ==
    (unit \in {"field", "member"} /\ field_res # NotRun /\ field_src \in C30_Texts)
      => field_res.r = "fail"
====
